---- MODULE Spec2Model ----
(***************************************************************************)
(* A state-machine model of the AI-response action pipeline:               *)
(*   - the tag extractor (dyad_tag_parser: getDyad*Tags),                   *)
(*   - the orchestrator processFullResponseActions (response_processor),   *)
(*   - the dependency installer executeAddDependency,                      *)
(* together with the collaborators they act on: the project file tree,     *)
(* the git repository, the message store, the pending-upload registry and  *)
(* the remote function/SQL service.                                        *)
(*                                                                         *)
(* A response text is a sequence of tags; a tag carries its attributes and *)
(* its body (a sequence of lines).  Every step of the orchestrator is one   *)
(* action, which takes one transition for each call the step awaits, so    *)
(* that other invocations run between the awaits; the synchronous code     *)
(* between two awaits runs with no other invocation in between.  Failures  *)
(* of collaborators are chosen nondeterministically, at most MaxFaults of  *)
(* them per invocation.                                                    *)
(***************************************************************************)
EXTENDS Integers, Sequences, FiniteSets, TLC

\* ---------------------------------------------------------------- bounds
\* Longest response, in tags.
MaxTags == 2
\* Most collaborator failures injected into one invocation.
MaxFaults == 2

\* ------------------------------------------------------------- universes
\* Invocation slots (one call of processFullResponseActions each).
Invocations == {1, 2}
\* Project directories (appPath).
Dirs == {1, 2}

ROOT == "."
OldTs == "old.ts"
BTs == "b.ts"
CTs == "c.ts"
UserFile == "notes.txt"
PackageJson == "package.json"
PnpmLock == "pnpm-lock.yaml"
PackageLock == "package-lock.json"
SupabaseDir == "supabase"
FunctionsDir == "supabase/functions"
HelloDir == "supabase/functions/hello"
HelloIndex == "supabase/functions/hello/index.ts"
MigrationsDir == "supabase/migrations"

\* The migration file written for the k-th query of a response.
MigrationPath(k) == "supabase/migrations/000" \o ToString(k) \o "_migration.sql"

MigrationPaths == {MigrationPath(k) : k \in 1..(MaxTags + 1)}

TopLevelPaths ==
    {OldTs, BTs, CTs, UserFile, PackageJson, PnpmLock, PackageLock, SupabaseDir}

Paths ==
    TopLevelPaths \cup {FunctionsDir, HelloDir, HelloIndex, MigrationsDir}
        \cup MigrationPaths

\* path.dirname on the paths of the model.
Dirname(p) ==
    CASE p \in TopLevelPaths -> ROOT
      [] p = FunctionsDir -> SupabaseDir
      [] p = MigrationsDir -> SupabaseDir
      [] p = HelloDir -> FunctionsDir
      [] p = HelloIndex -> HelloDir
      [] p \in MigrationPaths -> MigrationsDir
      [] OTHER -> ROOT

RECURSIVE Ancestors(_)
\* The directories above p, up to (not including) the project root.
Ancestors(p) ==
    IF Dirname(p) = ROOT THEN {}
    ELSE {Dirname(p)} \cup Ancestors(Dirname(p))

\* The paths at or below p.
Subtree(p) == {q \in Paths : q = p \/ p \in Ancestors(q)}

\* ------------------------------------------------------------ file values
NoFile == [kind |-> "none", data |-> <<>>]
DirEntry == [kind |-> "dir", data |-> <<>>]
File(lines) == [kind |-> "file", data |-> lines]

\* fs.existsSync
Exists(tree, p) == tree[p].kind # "none"

\* A tree left without the parent directories of p.
NoParents(tree, p) == tree

\* fs.mkdirSync(dir, {recursive: true}) for the parent directories of p.
MkdirParents(tree, p) ==
    [q \in Paths |-> IF q \in Ancestors(p) THEN DirEntry ELSE tree[q]]

\* A written file that is dropped.
WriteDropped(tree, p, lines) == tree

\* fs.writeFileSync(p, lines)
WriteFile(tree, p, lines) == [tree EXCEPT ![p] = File(lines)]

\* A removal that clears the entry at p and leaves what lies below it.
RemoveEntryOnly(tree, p) == [tree EXCEPT ![p] = NoFile]

\* fs.unlinkSync for a file, fs.rmdirSync(recursive) for a directory.
Remove(tree, p) ==
    IF tree[p].kind = "dir"
    THEN [q \in Paths |-> IF q \in Subtree(p) THEN NoFile ELSE tree[q]]
    ELSE [tree EXCEPT ![p] = NoFile]

\* A rename that leaves the source in place.
RenameCopy(tree, from, to) == [tree EXCEPT ![to] = tree[from]]

\* fs.renameSync(from, to) of a file.
Rename(tree, from, to) ==
    IF from = to THEN tree
    ELSE [tree EXCEPT ![to] = tree[from], ![from] = NoFile]

\* The project tree every invocation starts from.
OldContent == <<"export const x = 0;">>
BContent == <<"let b = 1;", "export default b;">>
InitialTree ==
    [p \in Paths |->
        CASE p = OldTs -> File(OldContent)
          [] p = BTs -> File(BContent)
          [] p = PackageJson -> File(<<"{}">>)
          [] p = PnpmLock -> File(<<"lockfileVersion: 9">>)
          [] p = UserFile -> File(<<"todo">>)
          [] OTHER -> NoFile]

\* ------------------------------------------------------------------ tags
\* One tag of a response text: its kind, its attributes (path, or from/to,
\* or packages; "" and <<>> when the attribute is absent) and its body lines.
Tag(kind, path, to, body, packages) ==
    [kind |-> kind, path |-> path, to |-> to, body |-> body,
     packages |-> packages]

WriteTag(path, body) == Tag("dyad-write", path, "", body, <<>>)
RenameTag(from, to) == Tag("dyad-rename", from, to, <<>>, <<>>)
DeleteTag(path) == Tag("dyad-delete", path, "", <<>>, <<>>)
AddDependencyTag(packages) == Tag("dyad-add-dependency", "", "", <<>>, packages)
ExecuteSqlTag(body) == Tag("dyad-execute-sql", "", "", body, <<>>)
SearchReplaceTag(path, body) == Tag("dyad-search-replace", path, "", body, <<>>)

\* The fenced-code marker (three backquotes), written [fence] in the model.
Fence == "[fence]"
\* Lines that start with the fence marker: startsWith(Fence).
FenceLines == {Fence, Fence \o "ts", Fence \o "sql"}
\* Lines that hold only whitespace.
BlankLines == {"", " "}

RECURSIVE TrimLeft(_)
TrimLeft(lines) ==
    IF lines # <<>> /\ Head(lines) \in BlankLines
    THEN TrimLeft(Tail(lines)) ELSE lines

RECURSIVE TrimRight(_)
TrimRight(lines) ==
    IF lines # <<>> /\ lines[Len(lines)] \in BlankLines
    THEN TrimRight(SubSeq(lines, 1, Len(lines) - 1)) ELSE lines

\* String.prototype.trim on a body: the whitespace-only lines at both ends go.
Trim(lines) == TrimRight(TrimLeft(lines))

\* contentLines.shift() when the first line starts with the fence marker.
ShiftFence(lines) ==
    IF lines # <<>> /\ Head(lines) \in FenceLines THEN Tail(lines) ELSE lines

\* A cleanup that never removes the last line.
KeepLast(lines) == lines

\* contentLines.pop() when the last line starts with the fence marker.
PopFence(lines) ==
    IF lines # <<>> /\ lines[Len(lines)] \in FenceLines
    THEN SubSeq(lines, 1, Len(lines) - 1) ELSE lines

\* The body cleanup shared by the write, execute-sql and search-replace tags.
CleanContent(body) == PopFence(ShiftFence(Trim(body)))

\* shared/normalizePath: platform-neutral separators.
normalizePath(p) ==
    CASE p = "supabase\\functions\\hello\\index.ts" -> HelloIndex
      [] OTHER -> p

RECURSIVE SelectTags(_, _)
\* The tags of one kind, in textual order.
SelectTags(resp, kind) ==
    IF resp = <<>> THEN <<>>
    ELSE IF Head(resp).kind = kind
         THEN <<Head(resp)>> \o SelectTags(Tail(resp), kind)
         ELSE SelectTags(Tail(resp), kind)

RECURSIVE WithPath(_)
\* The tags whose path attribute matched path="([^"]+)".
WithPath(tags) ==
    IF tags = <<>> THEN <<>>
    ELSE IF Head(tags).path # ""
         THEN <<Head(tags)>> \o WithPath(Tail(tags))
         ELSE WithPath(Tail(tags))

getDyadWriteTags(fullResponse) ==
    LET tags == WithPath(SelectTags(fullResponse, "dyad-write"))
    IN [k \in 1..Len(tags) |->
          [path |-> normalizePath(tags[k].path),
           content |-> CleanContent(tags[k].body)]]

RECURSIVE WithFromTo(_)
WithFromTo(tags) ==
    IF tags = <<>> THEN <<>>
    ELSE IF Head(tags).path # "" /\ Head(tags).to # ""
         THEN <<Head(tags)>> \o WithFromTo(Tail(tags))
         ELSE WithFromTo(Tail(tags))

getDyadRenameTags(fullResponse) ==
    LET tags == WithFromTo(SelectTags(fullResponse, "dyad-rename"))
    IN [k \in 1..Len(tags) |->
          [from |-> normalizePath(tags[k].path),
           to |-> normalizePath(tags[k].to)]]

getDyadDeleteTags(fullResponse) ==
    LET tags == WithPath(SelectTags(fullResponse, "dyad-delete"))
    IN [k \in 1..Len(tags) |-> normalizePath(tags[k].path)]

RECURSIVE SplitAcc(_, _, _)
SplitAcc(chars, done, cur) ==
    IF chars = <<>> THEN Append(done, cur)
    ELSE IF Head(chars) = " "
         THEN SplitAcc(Tail(chars), Append(done, cur), "")
         ELSE SplitAcc(Tail(chars), done, cur \o Head(chars))

\* String.prototype.split(" ") on the characters of an attribute value.
SplitOnSpace(chars) == SplitAcc(chars, <<>>, "")

RECURSIVE ConcatLatestFirst(_)
\* A concatenation that puts the packages of later tags first.
ConcatLatestFirst(tags) ==
    IF tags = <<>> THEN <<>>
    ELSE ConcatLatestFirst(Tail(tags)) \o SplitOnSpace(Head(tags).packages)

RECURSIVE ConcatPackages(_)
ConcatPackages(tags) ==
    IF tags = <<>> THEN <<>>
    ELSE SplitOnSpace(Head(tags).packages) \o ConcatPackages(Tail(tags))

RECURSIVE WithPackages(_)
\* The tags whose packages attribute matched packages="([^"]+)".
WithPackages(tags) ==
    IF tags = <<>> THEN <<>>
    ELSE IF Head(tags).packages # <<>>
         THEN <<Head(tags)>> \o WithPackages(Tail(tags))
         ELSE WithPackages(Tail(tags))

getDyadAddDependencyTags(fullResponse) ==
    ConcatPackages(WithPackages(SelectTags(fullResponse, "dyad-add-dependency")))

getDyadExecuteSqlTags(fullResponse) ==
    LET tags == SelectTags(fullResponse, "dyad-execute-sql")
    IN [k \in 1..Len(tags) |-> [content |-> CleanContent(tags[k].body)]]

getDyadSearchReplaceTags(fullResponse) ==
    LET tags == WithPath(SelectTags(fullResponse, "dyad-search-replace"))
    IN [k \in 1..Len(tags) |->
          [path |-> normalizePath(tags[k].path),
           content |-> CleanContent(tags[k].body)]]

\* ---------------------------------------------------------- patch engine
\* The rule markup of a search-replace body.
SearchMark == "<<<<<<< SEARCH"
SepMark == "======="
ReplaceMark == ">>>>>>> REPLACE"
RuleMarks == {SearchMark, SepMark, ReplaceMark}

PatchOk(lines) ==
    [success |-> TRUE, hasContent |-> TRUE, content |-> lines, error |-> ""]
PatchFail(reason) ==
    [success |-> FALSE, hasContent |-> FALSE, content |-> <<>>, error |-> reason]

RECURSIVE ParseRules(_, _, _, _, _)
\* The rules of a body, or ok = FALSE when the markup is malformed.
ParseRules(lines, mode, search, replace, rules) ==
    IF lines = <<>>
    THEN [ok |-> mode = "idle" /\ rules # <<>>, rules |-> rules]
    ELSE LET h == Head(lines)
             t == Tail(lines)
             bad == [ok |-> FALSE, rules |-> <<>>]
         IN CASE mode = "idle" ->
                   IF h = SearchMark
                   THEN ParseRules(t, "search", <<>>, <<>>, rules)
                   ELSE bad
              [] mode = "search" ->
                   IF h = SepMark
                   THEN IF search = <<>> THEN bad
                        ELSE ParseRules(t, "replace", search, <<>>, rules)
                   ELSE IF h \in RuleMarks THEN bad
                   ELSE ParseRules(t, "search", Append(search, h), <<>>, rules)
              [] OTHER ->
                   IF h = ReplaceMark
                   THEN ParseRules(t, "idle", <<>>, <<>>,
                            Append(rules, [search |-> search, replace |-> replace]))
                   ELSE IF h \in RuleMarks THEN bad
                   ELSE ParseRules(t, "replace", search, Append(replace, h), rules)

\* The positions where the lines of search occur in content.
Occurrences(content, search) ==
    {k \in 1..(Len(content) - Len(search) + 1) :
        SubSeq(content, k, k + Len(search) - 1) = search}

RECURSIVE ApplyRules(_, _)
\* Each rule is matched against the content left by the rules before it.
ApplyRules(content, rules) ==
    IF rules = <<>> THEN PatchOk(content)
    ELSE LET r == Head(rules)
             at == Occurrences(content, r.search)
         IN IF at = {} THEN PatchFail("target-not-found")
            ELSE IF Cardinality(at) > 1 THEN PatchFail("target-ambiguous")
            ELSE LET k == CHOOSE x \in at : TRUE
                     patched ==
                         SubSeq(content, 1, k - 1) \o r.replace
                             \o SubSeq(content, k + Len(r.search), Len(content))
                 IN ApplyRules(patched, Tail(rules))

applySearchReplace(original, patchRules) ==
    LET parsed == ParseRules(patchRules, "idle", <<>>, <<>>, <<>>)
    IN IF ~parsed.ok THEN PatchFail("malformed-rule-syntax")
       ELSE ApplyRules(original, parsed.rules)

\* ------------------------------------------------------ deployable units
\* supabase_utils.isServerFunction: a path under supabase/functions/.
isServerFunction(p) == FunctionsDir \in Ancestors(p)

\* path.extname(p) is not empty.
HasExtname(p) == p \notin {SupabaseDir, FunctionsDir, HelloDir, MigrationsDir}

\* path.basename on the paths of the model.
Basename(p) ==
    CASE p = HelloDir -> "hello"
      [] p = HelloIndex -> "index.ts"
      [] p = FunctionsDir -> "functions"
      [] p = MigrationsDir -> "migrations"
      [] p \in MigrationPaths ->
           LET k == CHOOSE n \in 1..(MaxTags + 1) : MigrationPath(n) = p
           IN "000" \o ToString(k) \o "_migration.sql"
      [] OTHER -> p

getFunctionNameFromPath(input) ==
    Basename(IF HasExtname(input) THEN Dirname(input) ELSE input)

\* The file readFileFromFunctionPath reads: the file, or for a path without
\* an extension path.join(input, "index.ts").
FunctionSourcePath(input) ==
    IF HasExtname(input) THEN input ELSE input \o "/index.ts"

\* ------------------------------------------------------------------ state
VARIABLES
    inv,      \* per invocation: the locals of processFullResponseActions
    fs,       \* per project directory: the file tree
    git,      \* per project directory: index, unstaged changes, commits
    msgs,     \* the message store, by message id
    uploads,  \* FileUploadsState: per chat, the pending-upload identifiers
    tsc,      \* generateProblemReport: the worker and the promise of one call
    call,     \* one call of a tag parser: its input, its output and its log
    regex     \* MENTION_REGEX: the state the module-level regex object keeps

vars == <<inv, fs, git, msgs, uploads, tsc, call, regex>>

\* parse_mention_apps.ts line 8: the regex object as the module creates it.
\* Positions of the model count from 1: lastIndex 1 is the scan position 0
\* of the source.
FreshRegex == [lastIndex |-> 1]

\* A call of the function fn: what it was given, what it returned and what
\* it logged.
Called(fn, input, output, log) ==
    [fn |-> fn, input |-> input, output |-> output, log |-> log]
NoCall == Called("none", <<>>, <<>>, <<>>)

\* The promise of generateProblemReport and what it settled with.
Promise(state, value) == [state |-> state, value |-> value]
\* No compile check has been asked for.
NoCheck ==
    [fullResponse |-> <<>>, worker |-> "none", input |-> <<>>,
     promise |-> Promise("none", ""), calls |-> <<>>, events |-> <<>>,
     appPath |-> 1]

\* The content of the file uploaded under an identifier.
UploadData(id) == <<"<uploaded " \o id \o ">">>

\* What the function returned: nothing yet, the empty object, a result
\* summary, {error}, or a rejected promise.
Result(kind, updatedFiles, extraFiles, extraFilesError) ==
    [kind |-> kind, updatedFiles |-> updatedFiles, extraFiles |-> extraFiles,
     extraFilesError |-> extraFilesError]
Pending == Result("pending", FALSE, {}, "")
EmptyResult == Result("empty", FALSE, {}, "")
ErrorResult == Result("error", FALSE, {}, "")
Rejected == Result("thrown", FALSE, {}, "")

\* One warning or error collected for the annotations.
Output(message, ref) == [message |-> message, ref |-> ref]

\* One call made to a collaborator, as recorded in the invocation's trace:
\* the step that made it, the operation, what it was about, the list it was
\* given (the packages of an install) and whether it succeeded.
EventWith(step, op, ref, args, ok) ==
    [step |-> step, op |-> op, ref |-> ref, args |-> args, ok |-> ok]
Event(step, op, ref, ok) == EventWith(step, op, ref, <<>>, ok)

\* The stored content of a message: the response text, whether the install
\* output was embedded into its add-dependency tag, and the annotation block.
Content(installResults, appended, warnings, errors) ==
    [installResults |-> installResults, appended |-> appended,
     warnings |-> warnings, errors |-> errors]
OriginalContent == Content(FALSE, FALSE, <<>>, <<>>)

\* A row of the message store. row: "assistant" when it is the assistant
\* message of the invocation's chat, "other" when a row with this id exists
\* but has another role or chat, "none" when there is no such row.
Message(row) ==
    [row |-> row, content |-> OriginalContent, approvalState |-> "none",
     commitHash |-> 0]

\* The app of a chat.
App(found, dir, neon, supabase) ==
    [found |-> found, dir |-> dir, neon |-> neon, supabase |-> supabase]

\* A call of dryRunSearchReplace for the response of an invocation. state is
\* "none" before the call, "readFile" while the call is suspended in the read
\* of the target of tag k, "read" once readFile has answered and the call has
\* not run again, "returned" at the end. issues is the local list; original
\* and rejected hold what readFile answered. calledOn keeps the tree at the
\* time of the call, readOn the tree readFile saw, and seen one entry for
\* each tag decided: the tree the decision was taken on, the issue pushed
\* (or none), whether readFile failed on a regular file and whether the
\* target found by existsSync was gone when readFile acted. No step reads
\* calledOn, readOn or seen.
Seen(tag, tree, issue, failed, raced) ==
    [tag |-> tag, tree |-> tree, issue |-> issue, failed |-> failed,
     raced |-> raced]
NoDryRun ==
    [state |-> "none", k |-> 1, issues |-> <<>>, original |-> <<>>,
     rejected |-> "", failed |-> FALSE, calledOn |-> <<>>, readOn |-> <<>>,
     seen |-> <<>>]

\* The locals that one iteration of a loop carries over an await: the text
\* readFile returned to the search-replace loop, whether the content of a
\* write is the uploaded file, the files a delete took away, whether the
\* awaited call has returned while the invocation has not run again, and
\* whether it returned by rejecting.
Locals(original, replaced, gone, settled, rejected) ==
    [original |-> original, replaced |-> replaced, gone |-> gone,
     settled |-> settled, rejected |-> rejected]
NoLocals == Locals(<<>>, FALSE, {}, FALSE, FALSE)

\* Lines 224-227: chatSummary is a string or undefined; the empty string
\* stands for both, which the test of line 623 does not tell apart.
ChatSummaries == {"", "Add a greeting"}

\* The locals of one invocation at its start. awaiting names the awaited
\* call in which the invocation is suspended inside an iteration ("" between
\* iterations); running holds while the invocation runs synchronous code and
\* has not reached its next await; before keeps the state the iteration
\* started from, which no step reads.
Started(response, app, migration, chatSummary) ==
    [pc |-> "start", idx |-> 1, fullResponse |-> response, app |-> app,
     chatSummary |-> chatSummary,
     enableSupabaseWriteSqlMigration |-> migration,
     fileUploadsMap |-> {}, writtenFiles |-> <<>>, renamedFiles |-> <<>>,
     deletedFiles |-> <<>>, hasChanges |-> FALSE, warnings |-> <<>>,
     errors |-> <<>>, commitHash |-> 0, uncommittedFiles |-> {},
     extraFilesError |-> "", result |-> Pending, faults |-> 0,
     message |-> OriginalContent, trace |-> <<>>, dry |-> NoDryRun,
     awaiting |-> "", running |-> FALSE, locals |-> NoLocals,
     before |-> <<>>]

\* A slot in which no invocation runs.
Idle == [Started(<<>>, App(FALSE, 1, FALSE, FALSE), FALSE, "") EXCEPT !.pc = "idle"]

CleanRepo == [index |-> {}, dirty |-> {}, log |-> <<>>, seq |-> 0]

\* The chat and the message of invocation i.
chatId(i) == i
messageId(i) == i

\* The responses of at most MaxTags tags over a set of tags.
Responses(tags) == UNION {[1..n -> tags] : n \in 0..MaxTags}

\* ---------------------------------------------------------- the core inputs
NewContent == <<"export const x = 1;">>
SqlBody == <<Fence \o "sql", "create table t (id int);", Fence>>
PatchBody == <<SearchMark, "let b = 1;", SepMark, "let b = 2;", ReplaceMark>>

DeleteOld == DeleteTag(OldTs)
RenameBToOld == RenameTag(BTs, OldTs)
WriteOld == WriteTag(OldTs, <<Fence \o "ts">> \o NewContent \o <<Fence>>)
SqlCreate == ExecuteSqlTag(SqlBody)
AddLeftRight == AddDependencyTag(<<"left", " ", "right">>)
AddRightExtra == AddDependencyTag(<<"right", " ", "extra">>)
PatchB == SearchReplaceTag(BTs, PatchBody)
PatchOld == SearchReplaceTag(OldTs, PatchBody)
AllKindsReversed ==
    <<WriteOld, PatchOld, RenameBToOld, DeleteOld, AddLeftRight, SqlCreate>>

CoreTags == {DeleteOld, RenameBToOld, WriteOld, SqlCreate, AddLeftRight, PatchB}

\* A setup: the app of the chat, the migration setting, the message row and
\* the files the user edited outside the pipeline, for a caller that passes
\* no chat summary; Summarized is the same setup for a caller that passes
\* one.
Setup(app, migration, row, edited) ==
    [app |-> app, migration |-> migration, row |-> row, edited |-> edited,
     chatSummary |-> ""]
Summarized(setup) == [setup EXCEPT !.chatSummary = "Add a greeting"]

PlainApp == App(TRUE, 1, FALSE, FALSE)
LinkedApp == App(TRUE, 1, FALSE, TRUE)
FullApp == App(TRUE, 1, TRUE, TRUE)
NoApp == App(FALSE, 1, FALSE, FALSE)

\* An app with a Neon branch and a Supabase project that writes migrations;
\* a linked app that does not, with a file edited by the user, called
\* without and with a chat summary; the message
\* row missing or of another role; no app at all.
CoreSetups ==
    {Setup(FullApp, TRUE, "assistant", {}),
     Setup(LinkedApp, FALSE, "assistant", {UserFile}),
     Summarized(Setup(LinkedApp, FALSE, "assistant", {UserFile})),
     Setup(PlainApp, FALSE, "other", {}),
     Setup(FullApp, TRUE, "none", {}),
     Setup(NoApp, FALSE, "assistant", {})}

\* An app without a Supabase project differs from a linked one only in what
\* happens to SQL tags: it is run on the responses that have one.
UnlinkedSetup == Setup(PlainApp, FALSE, "assistant", {})

HasTag(response, tag) == \E k \in DOMAIN response : response[k] = tag

\* One invocation, in slot 1, of one of the cases <<response, setup>>, in a
\* project that holds one of the trees, with one of the sets of pending
\* uploads registered for its chat.
InitIn(cases, trees, registries) ==
    \E case \in cases, tree \in trees, registry \in registries :
      LET response == case[1]
          setup == case[2]
      IN
        /\ inv = [i \in Invocations |->
                    IF i = 1
                    THEN Started(response, setup.app, setup.migration,
                                 setup.chatSummary)
                    ELSE Idle]
        /\ fs = [d \in Dirs |-> tree]
        /\ git = [d \in Dirs |->
                    IF d = setup.app.dir
                    THEN [CleanRepo EXCEPT !.dirty = setup.edited]
                    ELSE CleanRepo]
        /\ msgs = [m \in Invocations |->
                     IF m = 1 THEN Message(setup.row) ELSE Message("none")]
        /\ uploads = [c \in Invocations |-> IF c = chatId(1) THEN registry ELSE {}]
        /\ tsc = NoCheck
        /\ call = NoCall
        /\ regex = FreshRegex

\* One invocation, in slot 1, of one of the cases <<response, setup>>.
InitWith(cases) ==
    \E case \in cases :
      LET response == case[1]
          setup == case[2]
      IN
        /\ inv = [i \in Invocations |->
                    IF i = 1
                    THEN Started(response, setup.app, setup.migration,
                                 setup.chatSummary)
                    ELSE Idle]
        /\ fs = [d \in Dirs |-> InitialTree]
        /\ git = [d \in Dirs |->
                    IF d = setup.app.dir
                    THEN [CleanRepo EXCEPT !.dirty = setup.edited]
                    ELSE CleanRepo]
        /\ msgs = [m \in Invocations |->
                     IF m = 1 THEN Message(setup.row) ELSE Message("none")]
        /\ uploads = [c \in Invocations |-> {}]
        /\ tsc = NoCheck
        /\ call = NoCall
        /\ regex = FreshRegex

\* Longer responses: the delete, the rename and the write of one path in
\* every textual order; one tag of each kind, written against the order of
\* the steps; statements and installs with other actions after them.
Orderings(tags) ==
    {r \in [1..Cardinality(tags) -> tags] : \A tag \in tags : HasTag(r, tag)}

CoreScenarios ==
    Orderings({DeleteOld, RenameBToOld, WriteOld})
        \cup {AllKindsReversed,
               <<WriteOld, SqlCreate, SqlCreate>>,
               <<SqlCreate, AddLeftRight, WriteOld>>}

CoreCases ==
    ((Responses(CoreTags) \cup CoreScenarios) \X CoreSetups)
        \cup {c \in (Responses(CoreTags) \cup CoreScenarios) \X {UnlinkedSetup} :
                HasTag(c[1], SqlCreate)}

Init == InitWith(CoreCases)

\* ------------------------------------------------- the dependency inputs
DepsTags == CoreTags \cup {AddRightExtra}

DepsSetups ==
    {Setup(FullApp, TRUE, "assistant", {})}

DepsScenarios ==
    {<<AddLeftRight, WriteOld, AddRightExtra>>,
     <<AddRightExtra, AddLeftRight, AddRightExtra>>}

InitDeps == InitWith((Responses(DepsTags) \cup DepsScenarios) \X DepsSetups)

\* ------------------------------------------------- the inputs on units
\* A project that has the server function hello.
UnitsTree ==
    [p \in Paths |->
        CASE p \in {SupabaseDir, FunctionsDir, HelloDir} -> DirEntry
          [] p = HelloIndex -> File(<<"serve(hello);">>)
          [] OTHER -> InitialTree[p]]

DeleteMissing == DeleteTag(CTs)
DeleteHello == DeleteTag(HelloDir)
RenameMissing == RenameTag(CTs, OldTs)
RenameToUnit == RenameTag(BTs, HelloIndex)
RenameFromUnit == RenameTag(HelloIndex, CTs)

UnitsTags ==
    {DeleteMissing, DeleteHello, DeleteOld, RenameMissing, RenameToUnit,
     RenameFromUnit, WriteOld}

UnitsSetups == {Setup(LinkedApp, FALSE, "assistant", {})}

\* Every response over the tags on units, in a project without and with the
\* function; and one response with a tag of each kind.
UnitsCases ==
    (Responses(UnitsTags) \X UnitsSetups)
        \cup {<<AllKindsReversed, Setup(FullApp, TRUE, "assistant", {})>>}

InitUnits == InitIn(UnitsCases, {InitialTree, UnitsTree}, {{}})

\* ------------------------------------------------------ the upload inputs
\* The identifier of a file attached to the first turn of a chat, and the
\* identifier of a file attached to its second turn.
FirstUploadId == "DYAD_ATTACHMENT_0"
LaterUploadId == "DYAD_ATTACHMENT_1"
UnitContent == <<"serve(hello);">>

\* Write tags whose body is an identifier, alone or between blank lines, and
\* write tags whose body is text; two of them under directories that the
\* project does not have yet.
WriteUpload == WriteTag(CTs, <<" ", FirstUploadId, "">>)
WriteUnitUpload == WriteTag(HelloIndex, <<FirstUploadId>>)
WriteUnit == WriteTag(HelloIndex, UnitContent)
WriteLater == WriteTag(BTs, <<LaterUploadId>>)
UploadTags == {WriteUpload, WriteUnitUpload, WriteUnit, WriteOld}

\* The responses of the first turn of the chat that is followed to its second
\* turn, and the responses of that second turn.
TurnOne == {<<WriteUpload>>, <<WriteOld>>}
TurnTwo == {<<WriteUpload, WriteLater>>, <<WriteLater, WriteUnitUpload>>}

\* A linked app; and the setups of the fatal exits: no app, no message row,
\* an app with a Neon branch whose snapshot can fail.
UploadSetups == {Setup(LinkedApp, FALSE, "assistant", {})}
FatalSetups ==
    {Setup(NoApp, FALSE, "assistant", {}),
     Setup(FullApp, TRUE, "none", {}),
     Setup(FullApp, TRUE, "assistant", {})}
UploadCases ==
    (Responses(UploadTags) \X UploadSetups)
        \cup ({<<WriteUpload>>} \X FatalSetups)
        \cup {<<AllKindsReversed, Setup(FullApp, TRUE, "assistant", {})>>}

\* The chat of slot 1 has the first upload pending or nothing pending; the
\* chat of slot 2, in which no invocation runs, has an upload pending.
InitUploads ==
    \E case \in UploadCases, registry \in {{}, {FirstUploadId}} :
      LET response == case[1]
          setup == case[2]
      IN
        /\ inv = [i \in Invocations |->
                    IF i = 1
                    THEN Started(response, setup.app, setup.migration,
                                 setup.chatSummary)
                    ELSE Idle]
        /\ fs = [d \in Dirs |-> InitialTree]
        /\ git = [d \in Dirs |-> CleanRepo]
        /\ msgs = [m \in Invocations |->
                     IF m = 1 THEN Message(setup.row) ELSE Message("none")]
        /\ uploads = [c \in Invocations |->
                        IF c = chatId(1) THEN registry ELSE {FirstUploadId}]
        /\ tsc = NoCheck
        /\ call = NoCall
        /\ regex = FreshRegex

\* --------------------------------------------------- two conversations
\* Two invocations for two chats: the first writes old.ts, or old.ts and
\* then b.ts, in directory 1; the second writes c.ts in the directory of its
\* app, which is the same directory or another one. Both repositories are
\* clean.
WriteC == WriteTag(CTs, UnitContent)
AppIn(d) == App(TRUE, d, FALSE, TRUE)
InitTwo ==
    \/ \E d \in Dirs,
          first \in {<<WriteOld>>, <<WriteOld, WriteTag(BTs, NewContent)>>},
          chatSummary \in ChatSummaries, other \in ChatSummaries :
         /\ inv = [i \in Invocations |->
                     IF i = 1 THEN Started(first, AppIn(1), FALSE, chatSummary)
                     ELSE Started(<<WriteC>>, AppIn(d), FALSE, other)]
         /\ fs = [x \in Dirs |-> InitialTree]
         /\ git = [x \in Dirs |-> CleanRepo]
         /\ msgs = [m \in Invocations |-> Message("assistant")]
         /\ uploads = [c \in Invocations |-> {}]
         /\ tsc = NoCheck
         /\ call = NoCall
         /\ regex = FreshRegex
    \/ InitIn({<<AllKindsReversed, Setup(FullApp, TRUE, "assistant", {})>>},
              {InitialTree}, {{}})

\* ------------------------------------------------------- version control
\* A change of the working tree at the paths ps.
Touch(repo, ps) == [repo EXCEPT !.dirty = @ \cup ps]

gitAdd(repo, p) ==
    [repo EXCEPT !.index = @ \cup {p}, !.dirty = @ \ {p}]

gitRemove(repo, ps) ==
    [repo EXCEPT !.index = @ \cup ps, !.dirty = @ \ ps]

gitAddAll(repo) ==
    [repo EXCEPT !.index = @ \cup repo.dirty, !.dirty = {}]

getGitUncommittedFiles(repo) == repo.dirty \cup repo.index

\* gitCommit: a new commit of what is staged; with amend, it replaces the
\* last commit and keeps that commit's files.
gitCommit(repo, message, amend) ==
    LET hash == repo.seq + 1
        before == IF amend /\ repo.log # <<>>
                  THEN repo.log[Len(repo.log)].files ELSE {}
        kept == IF amend /\ repo.log # <<>>
                THEN SubSeq(repo.log, 1, Len(repo.log) - 1) ELSE repo.log
    IN [repo EXCEPT
          !.index = {},
          !.seq = hash,
          !.log = Append(kept, [hash |-> hash, message |-> message,
                                files |-> before \cup repo.index])]

\* The files (not the directories) of a tree at or below p.
FilesUnder(tree, p) == {q \in Subtree(p) : tree[q].kind = "file"}

\* ------------------------------------------------------------ the pipeline
\* Another order of the steps: renames before deletions.
RenameBeforeDelete == <<"sql", "deps", "rename", "delete", "searchReplace", "write">>

\* The steps between the message lookup and the commit, in program order.
PhaseOrder == <<"sql", "deps", "delete", "rename", "searchReplace", "write">>

\* The SQL tags are parsed only for an app with a linked Supabase project.
dyadExecuteSqlQueries(s) ==
    IF s.app.supabase THEN getDyadExecuteSqlTags(s.fullResponse) ELSE <<>>

\* How many times the body of a step's loop runs.
NumItems(s, phase) ==
    CASE phase = "sql" -> Len(dyadExecuteSqlQueries(s))
      [] phase = "deps" ->
           IF Len(getDyadAddDependencyTags(s.fullResponse)) > 0 THEN 1 ELSE 0
      [] phase = "delete" -> Len(getDyadDeleteTags(s.fullResponse))
      [] phase = "rename" -> Len(getDyadRenameTags(s.fullResponse))
      [] phase = "searchReplace" -> Len(getDyadSearchReplaceTags(s.fullResponse))
      [] phase = "write" -> Len(getDyadWriteTags(s.fullResponse))
      [] OTHER -> 0

RECURSIVE FirstPhaseFrom(_, _)
\* The first step at or after position n that has something to do; the
\* commit step when there is none.
FirstPhaseFrom(s, n) ==
    IF n > Len(PhaseOrder) THEN "commit"
    ELSE IF NumItems(s, PhaseOrder[n]) > 0 THEN PhaseOrder[n]
    ELSE FirstPhaseFrom(s, n + 1)

PhaseIndex(phase) == CHOOSE n \in 1..Len(PhaseOrder) : PhaseOrder[n] = phase

\* Control after item s.idx of the current step: the next item of the loop,
\* or the next step.
Advance(s) ==
    IF s.idx < NumItems(s, s.pc)
    THEN [s EXCEPT !.idx = @ + 1]
    ELSE [s EXCEPT !.pc = FirstPhaseFrom(s, PhaseIndex(s.pc) + 1), !.idx = 1]

\* A throw that would leave the function at once, with no finally block.
ThrowUnhandled(s) == [s EXCEPT !.pc = "done", !.result = ErrorResult]

\* A throw that is swallowed: the function goes on to the approval.
ThrowSwallowed(s) == [s EXCEPT !.pc = "approve"]

\* A throw inside the try block: caught at the top level, then finally.
Throw(s) == [s EXCEPT !.pc = "finally", !.result = ErrorResult]

\* Failures counted against the budget of an invocation.
Failed(outcomes) == Cardinality({k \in DOMAIN outcomes : ~outcomes[k]})
Allowed(s, outcomes) == s.faults + Failed(outcomes) <= MaxFaults
Charge(s, outcomes) == [s EXCEPT !.faults = @ + Failed(outcomes)]

Record(s, event) == [s EXCEPT !.trace = Append(@, event)]
PushError(s, out) == [s EXCEPT !.errors = Append(@, out)]
PushWarning(s, out) == [s EXCEPT !.warnings = Append(@, out)]
PushWritten(s, p) == [s EXCEPT !.writtenFiles = Append(@, p)]

\* The invocation reaches the awaited call op inside an iteration and is
\* suspended there: other invocations run before the call acts.
Hold(s, t, op) ==
    [t EXCEPT !.awaiting = op, !.running = FALSE,
              !.before = IF s.awaiting = ""
                         THEN <<[slot |-> s, tree |-> fs[s.app.dir],
                                 repo |-> git[s.app.dir]]>>
                         ELSE s.before]

\* The iteration is over: nothing is carried into the next one.
End(t) ==
    [t EXCEPT !.awaiting = "", !.running = FALSE, !.locals = NoLocals,
              !.before = <<>>]

\* Lines 545-548: the trimmed body of the write tag is the id of an upload.
fileInfo(s, tag) == \E id \in s.fileUploadsMap : Trim(tag.content) = <<id>>

\* What the invocation does next starts with synchronous file operations:
\* existsSync at lines 402 and 497, mkdirSync at lines 443 and 570.
GoesOn(t) ==
    /\ t.awaiting = ""
    /\ \/ t.pc \in {"delete", "rename", "searchReplace"}
       \/ /\ t.pc = "write"
          /\ ~fileInfo(t, getDyadWriteTags(t.fullResponse)[t.idx])

\* The invocation has run synchronous code only and has not been suspended:
\* it keeps running as long as synchronous code follows.
Go(t) == [t EXCEPT !.running = GoesOn(t)]

\* No other invocation is in the middle of synchronous code.
Runs(i) == \A j \in Invocations \ {i} : ~inv[j].running

\* A failed snapshot that is logged and ignored.
SnapshotIgnored(t) == [t EXCEPT !.pc = "lookup"]

\* A missing message that returns before the try block.
NoMessageReturn(t) == [t EXCEPT !.pc = "done", !.result = EmptyResult]

\* An approval made only on the commit path.
SkipApproval == "finally"

\* Line 253: no app for the chat: the empty object is returned at once.
NoAppExit(t) == [t EXCEPT !.pc = "done", !.result = EmptyResult]

\* Lines 266-272: the snapshot failed: the error is rethrown, outside the try.
SnapshotFailed(t) == [t EXCEPT !.pc = "done", !.result = Rejected]

\* Lines 305-308: no message: the empty object is returned inside the try,
\* so the finally block still runs.
NoMessageExit(t) == [t EXCEPT !.pc = "finally", !.result = EmptyResult]

\* Lines 602, 668: with no changes, control falls through to the approval.
NoChangesNext == "approve"

\* Lines 244-254: the lookup of the chat and its app answers and the
\* invocation runs again. The lookup is awaited outside the try block: when
\* it rejects, the invocation rejects and no finally block runs; without an
\* app the empty object is returned.
FindChat(i) ==
    LET s == inv[i]
    IN /\ s.pc = "chat"
       /\ \E ok \in BOOLEAN :
            LET t == Charge(s, <<ok>>)
            IN /\ Allowed(s, <<ok>>)
               /\ inv' = [inv EXCEPT ![i] =
                            IF ~ok THEN [t EXCEPT !.pc = "done", !.result = Rejected]
                            ELSE IF t.app.found
                            THEN [t EXCEPT !.pc = "prestep"]
                            ELSE NoAppExit(t)]
       /\ UNCHANGED <<fs, git, msgs, uploads, tsc, call, regex>>

\* Lines 236-244 without line 239: the registry of the chat is read and kept.
BeginKeepingUploads(i) ==
    LET s == inv[i]
    IN /\ s.pc = "start"
       /\ uploads' = uploads
       /\ inv' = [inv EXCEPT ![i] =
                    [s EXCEPT !.pc = "chat",
                              !.fileUploadsMap = uploads[chatId(i)]]]
       /\ UNCHANGED <<fs, git, msgs, tsc, call, regex>>

\* Lines 236-244: the call. The upload registry of the chat is read and
\* cleared synchronously, then the function reaches the lookup of the chat
\* and returns its pending promise to the event loop.
Begin(i) ==
    LET s == inv[i]
    IN /\ s.pc = "start"
       /\ uploads' = [uploads EXCEPT ![chatId(i)] = {}]
       /\ inv' = [inv EXCEPT ![i] =
                    [s EXCEPT !.pc = "chat",
                              !.fileUploadsMap = uploads[chatId(i)]]]
       /\ UNCHANGED <<fs, git, msgs, tsc, call, regex>>

\* Lines 256-273: the database snapshot of an app with a Neon branch.
PreStep(i) ==
    LET s == inv[i]
    IN /\ s.pc = "prestep"
       /\ \E ok \in BOOLEAN :
            /\ Allowed(s, <<ok>>)
            /\ ok \/ s.app.neon
            /\ inv' = [inv EXCEPT ![i] =
                 IF ~s.app.neon THEN [s EXCEPT !.pc = "lookup"]
                 ELSE LET t == Record(Charge(s, <<ok>>),
                                Event("prestep", "storeDbTimestampAtCurrentVersion", "", ok))
                      IN IF ok THEN [t EXCEPT !.pc = "lookup"]
                         ELSE SnapshotFailed(t)]
       /\ UNCHANGED <<fs, git, msgs, uploads, tsc, call, regex>>

\* Lines 286-308: the tags are parsed and the message is looked up. The
\* lookup is awaited inside the try block: when it rejects, the catch block
\* returns the error and the finally block runs.
FindMessage(i) ==
    LET s == inv[i]
    IN /\ s.pc = "lookup"
       /\ \E ok \in BOOLEAN :
            LET c == Charge(s, <<ok>>)
            IN /\ Allowed(s, <<ok>>)
               /\ inv' = [inv EXCEPT ![i] =
                            IF ~ok THEN Throw(c)
                            ELSE IF msgs[messageId(i)].row = "assistant"
                            THEN [c EXCEPT !.pc = FirstPhaseFrom(c, 1), !.idx = 1,
                                           !.message = msgs[messageId(i)].content]
                            ELSE NoMessageExit(c)]
       /\ UNCHANGED <<fs, git, msgs, uploads, tsc, call, regex>>

\* A failed query that ends the SQL loop.
SqlFailedBreak(t, k) ==
    [PushError(t, Output("Failed to execute SQL query", ToString(k)))
       EXCEPT !.pc = FirstPhaseFrom(t, PhaseIndex("sql") + 1), !.idx = 1]

\* Lines 336-342: a failed query is recorded and the loop goes on.
SqlFailed(t, k) ==
    Advance(PushError(t, Output("Failed to execute SQL query", ToString(k))))

\* Lines 329-334: a failed migration write is recorded and the loop goes on.
MigrationFailed(t, k) ==
    Advance(PushError(t, Output("Failed to write SQL migration file", ToString(k))))

\* Lines 310-345: one SQL query, and its migration file when enabled. The
\* query is awaited first; the migration file is written in a second await.
SqlStep(i) ==
    LET s == inv[i]
        d == s.app.dir
        k == s.idx
        file == MigrationPath(k)
        enabled == s.enableSupabaseWriteSqlMigration
    IN /\ s.pc = "sql"
       /\ \E ok \in BOOLEAN :
            /\ Allowed(s, <<ok>>)
            /\ IF s.awaiting = ""
               THEN LET t == Record(Charge(s, <<ok>>),
                                    Event("sql", "executeSupabaseSql", ToString(k), ok))
                    IN /\ inv' = [inv EXCEPT ![i] =
                            IF ~ok THEN SqlFailed(t, k)
                            ELSE IF ~enabled THEN Advance(t)
                            ELSE Hold(s, t, "writeMigrationFile")]
                       /\ UNCHANGED <<fs, git>>
               ELSE LET u == Record(Charge(s, <<ok>>),
                                    Event("sql", "writeMigrationFile", ToString(k), ok))
                    IN /\ inv' = [inv EXCEPT ![i] =
                            End(IF ok THEN Advance(PushWritten(u, file))
                                ELSE MigrationFailed(u, k))]
                       /\ fs' = IF ok
                                THEN [fs EXCEPT ![d] =
                                        WriteFile(MkdirParents(@, file), file,
                                                  dyadExecuteSqlQueries(s)[k].content)]
                                ELSE fs
                       /\ git' = IF ok
                                 THEN [git EXCEPT ![d] = Touch(@, {file})]
                                 ELSE git
       /\ UNCHANGED <<msgs, uploads, tsc, call, regex>>

RECURSIVE JoinWith(_, _)
\* Array.prototype.join
JoinWith(strings, sep) ==
    IF strings = <<>> THEN ""
    ELSE IF Len(strings) = 1 THEN Head(strings)
    ELSE Head(strings) \o sep \o JoinWith(Tail(strings), sep)

\* The install output is embedded into the add-dependency tags whose packages
\* attribute is the whole package list joined by spaces.
InstallResultsEmbedded(fullResponse) ==
    LET tags == WithPackages(SelectTags(fullResponse, "dyad-add-dependency"))
        joined == JoinWith(getDyadAddDependencyTags(fullResponse), " ")
    IN \E k \in 1..Len(tags) : JoinWith(tags[k].packages, "") = joined

\* What the install command leaves in the tree: "pnpm" when pnpm add worked,
\* "npm" when the fallback worked, "fail" when both failed.
InstallEffect(tree, how) ==
    CASE how = "pnpm" ->
           WriteFile(WriteFile(tree, PackageJson, <<"{deps}">>),
                     PnpmLock, <<"lockfileVersion: 9", "deps">>)
      [] how = "npm" ->
           WriteFile(WriteFile(tree, PackageJson, <<"{deps}">>),
                     PackageLock, <<"lockfileVersion: 3">>)
      [] OTHER -> tree

InstallTouched(how) ==
    CASE how = "pnpm" -> {PackageJson, PnpmLock}
      [] how = "npm" -> {PackageJson, PackageLock}
      [] OTHER -> {}

\* The manifest, and the lock files that exist, in the order they are pushed.
PackageFiles(tree) ==
    <<PackageJson>>
        \o (IF Exists(tree, PnpmLock) THEN <<PnpmLock>> ELSE <<>>)
        \o (IF Exists(tree, PackageLock) THEN <<PackageLock>> ELSE <<>>)

\* A recording made only when the install succeeded.
DepsWrittenOnSuccess(tree, ok) == IF ok THEN PackageFiles(tree) ELSE <<>>

\* Lines 366-377: what the dependency step records as written, after the
\* try/catch around the install.
DepsWritten(tree, ok) == PackageFiles(tree)

\* Lines 347-378: one install of all the packages of the response.
\* executeAddDependency awaits the install command and then the update of the
\* message content; it fails when either does. The lock files are looked up
\* (lines 366-377) when the invocation runs again after the await.
AddDependencyStep(i) ==
    LET s == inv[i]
        d == s.app.dir
        packages == getDyadAddDependencyTags(s.fullResponse)
        failed(t) == PushError(t, Output("Failed to add dependencies",
                                          JoinWith(packages, ", ")))
        called(t, ok) ==
            Record(t, EventWith("deps", "executeAddDependency",
                                JoinWith(packages, " "), packages, ok))
        returned(t, ok) ==
            Hold(s, [t EXCEPT !.locals.settled = TRUE, !.locals.rejected = ~ok],
                 "executeAddDependency")
    IN /\ s.pc = "deps"
       /\ CASE s.awaiting = "" ->
                 \E how \in {"pnpm", "npm", "fail"} :
                   LET ok == how # "fail"
                       c == Charge(s, <<ok>>)
                   IN /\ Allowed(s, <<ok>>)
                      /\ fs' = [fs EXCEPT ![d] = InstallEffect(@, how)]
                      /\ git' = [git EXCEPT ![d] = Touch(@, InstallTouched(how))]
                      /\ msgs' = msgs
                      /\ inv' = [inv EXCEPT ![i] =
                                   IF ok THEN Hold(s, c, "updateContent")
                                   ELSE returned(failed(called(c, FALSE)), FALSE)]
            [] s.awaiting = "updateContent" ->
                 \E ok \in BOOLEAN :
                   LET c == called(Charge(s, <<ok>>), ok)
                   IN /\ Allowed(s, <<ok>>)
                      /\ UNCHANGED <<fs, git>>
                      /\ msgs' = IF ok
                                 THEN [msgs EXCEPT ![messageId(i)].content =
                                         [s.message EXCEPT !.installResults =
                                             InstallResultsEmbedded(s.fullResponse)]]
                                 ELSE msgs
                      /\ inv' = [inv EXCEPT ![i] =
                                   returned(IF ok THEN c ELSE failed(c), ok)]
            [] OTHER ->
                 /\ UNCHANGED <<fs, git, msgs>>
                 /\ inv' = [inv EXCEPT ![i] =
                      Go(End(Advance(
                        [s EXCEPT !.writtenFiles =
                           @ \o DepsWritten(fs[d], ~s.locals.rejected)])))]
       /\ UNCHANGED <<uploads, tsc, call, regex>>

\* A failed teardown that leaves no record.
TeardownIgnored(t, filePath) == t

\* Lines 427-432: the teardown of the unit failed.
TeardownFailed(t, filePath) ==
    PushError(t, Output("Failed to delete Supabase function", filePath))

\* Lines 397-434: one delete tag. The path is looked up, removed and counted
\* in one synchronous run; then gitRemove is awaited, then the teardown of
\* the unit. A removal that throws is caught at the top level.
DeleteStep(i) ==
    LET s == inv[i]
        d == s.app.dir
        filePath == getDyadDeleteTags(s.fullResponse)[s.idx]
        exists == Exists(fs[d], filePath)
        remote == isServerFunction(filePath)
        gone == IF fs[d][filePath].kind = "dir"
                THEN FilesUnder(fs[d], filePath) ELSE {filePath}
        afterGit(t) == IF remote THEN Hold(s, t, "deleteSupabaseFunction")
                       ELSE End(Advance(t))
        teardown(c, ok) ==
            LET t == Record(c, Event("delete", "deleteSupabaseFunction",
                                     getFunctionNameFromPath(filePath), ok))
            IN End(Advance(IF ok THEN t ELSE TeardownFailed(t, filePath)))
    IN /\ s.pc = "delete"
       /\ \E ok \in BOOLEAN :
            /\ Allowed(s, <<ok>>)
            /\ CASE s.awaiting = "" /\ exists /\ ok ->
                      /\ fs' = [fs EXCEPT ![d] = Remove(@, filePath)]
                      /\ git' = [git EXCEPT ![d] = Touch(@, gone)]
                      /\ inv' = [inv EXCEPT ![i] =
                           Hold(s, Record([s EXCEPT !.deletedFiles = Append(@, filePath),
                                                    !.locals.gone = gone],
                                          Event("delete", "unlink", filePath, TRUE)),
                                "gitRemove")]
                 [] s.awaiting = "" /\ exists /\ ~ok ->
                      /\ UNCHANGED <<fs, git>>
                      /\ inv' = [inv EXCEPT ![i] =
                           End(Throw(Record(Charge(s, <<ok>>),
                                            Event("delete", "unlink", filePath, FALSE))))]
                 [] s.awaiting = "" /\ ~exists ->
                      /\ ok
                      /\ inv' = [inv EXCEPT ![i] = Go(afterGit(s))]
                      /\ UNCHANGED <<fs, git>>
                 [] s.awaiting = "gitRemove" ->
                      /\ inv' = [inv EXCEPT ![i] =
                           afterGit(Record(Charge(s, <<ok>>),
                                           Event("delete", "gitRemove", filePath, ok)))]
                      /\ git' = IF ok
                                THEN [git EXCEPT ![d] = gitRemove(@, s.locals.gone)]
                                ELSE git
                      /\ fs' = fs
                 [] OTHER ->
                      /\ inv' = [inv EXCEPT ![i] = teardown(Charge(s, <<ok>>), ok)]
                      /\ UNCHANGED <<fs, git>>
       /\ UNCHANGED <<msgs, uploads, tsc, call, regex>>

\* Lines 436-489: one rename tag. The file is moved and counted, then gitAdd,
\* gitRemove, the teardown of the old unit, the read of the new unit's source
\* and its deploy are awaited one after the other. A mkdirSync or a move that
\* throws is caught at the top level; a read that rejects, for any reason, is
\* recorded as a failed deploy.
RenameStep(i) ==
    LET s == inv[i]
        d == s.app.dir
        tag == getDyadRenameTags(s.fullResponse)[s.idx]
        made == MkdirParents(fs[d], tag.to)
        exists == Exists(made, tag.from)
        oldUnit == isServerFunction(tag.from)
        newUnit == isServerFunction(tag.to)
        source == FunctionSourcePath(tag.to)
        readable == source \in Paths /\ fs[d][source].kind = "file"
        afterDelete(t) == IF newUnit THEN Hold(s, t, "readFileFromFunctionPath")
                          ELSE End(Advance(t))
        afterGit(t) == IF oldUnit THEN Hold(s, t, "deleteSupabaseFunction")
                       ELSE afterDelete(t)
        undeployed(t) ==
            End(Advance(PushError(t, Output("Failed to deploy Supabase function",
                                            tag.to))))
    IN /\ s.pc = "rename"
       /\ \/ /\ s.awaiting = ""
             /\ Allowed(s, <<FALSE>>)
             /\ UNCHANGED <<fs, git>>
             /\ inv' = [inv EXCEPT ![i] = End(Throw(Charge(s, <<FALSE>>)))]
          \/ \E ok \in BOOLEAN :
            /\ Allowed(s, <<ok>>)
            /\ CASE s.awaiting = "" /\ exists /\ ok ->
                      /\ fs' = [fs EXCEPT ![d] = Rename(made, tag.from, tag.to)]
                      /\ git' = [git EXCEPT ![d] = Touch(@, {tag.from, tag.to})]
                      /\ inv' = [inv EXCEPT ![i] =
                           Hold(s, Record([s EXCEPT !.renamedFiles = Append(@, tag.to)],
                                          Event("rename", "renameSync", tag.to, TRUE)),
                                "gitAdd")]
                 [] s.awaiting = "" /\ exists /\ ~ok ->
                      /\ fs' = [fs EXCEPT ![d] = made]
                      /\ git' = git
                      /\ inv' = [inv EXCEPT ![i] =
                           End(Throw(Record(Charge(s, <<ok>>),
                                            Event("rename", "renameSync", tag.to, FALSE))))]
                 [] s.awaiting = "" /\ ~exists ->
                      /\ ok
                      /\ fs' = [fs EXCEPT ![d] = made]
                      /\ git' = git
                      /\ inv' = [inv EXCEPT ![i] = Go(afterGit(s))]
                 [] s.awaiting = "gitAdd" ->
                      /\ fs' = fs
                      /\ git' = IF ok THEN [git EXCEPT ![d] = gitAdd(@, tag.to)] ELSE git
                      /\ LET t == Record(Charge(s, <<ok>>),
                                         Event("rename", "gitAdd", tag.to, ok))
                         IN inv' = [inv EXCEPT ![i] =
                                      IF ok THEN Hold(s, t, "gitRemove")
                                      ELSE End(Throw(t))]
                 [] s.awaiting = "gitRemove" ->
                      /\ fs' = fs
                      /\ git' = IF ok THEN [git EXCEPT ![d] = gitRemove(@, {tag.from})]
                                ELSE git
                      /\ inv' = [inv EXCEPT ![i] =
                           afterGit(Record(Charge(s, <<ok>>),
                                           Event("rename", "gitRemove", tag.from, ok)))]
                 [] s.awaiting = "deleteSupabaseFunction" ->
                      /\ UNCHANGED <<fs, git>>
                      /\ LET t == Record(Charge(s, <<ok>>),
                                         Event("rename", "deleteSupabaseFunction",
                                               getFunctionNameFromPath(tag.from), ok))
                         IN inv' = [inv EXCEPT ![i] =
                              afterDelete(IF ok THEN t
                                          ELSE PushWarning(t,
                                                 Output("Failed to delete Supabase function",
                                                        tag.from)))]
                 [] s.awaiting = "readFileFromFunctionPath" ->
                      /\ UNCHANGED <<fs, git>>
                      /\ ok \/ readable
                      /\ inv' = [inv EXCEPT ![i] =
                           IF readable /\ ok
                           THEN Hold(s, s, "deploySupabaseFunctions")
                           ELSE undeployed(Charge(s, <<ok>>))]
                 [] OTHER ->
                      /\ UNCHANGED <<fs, git>>
                      /\ LET t == Record(Charge(s, <<ok>>),
                                         Event("rename", "deploySupabaseFunctions",
                                               getFunctionNameFromPath(tag.to), ok))
                         IN inv' = [inv EXCEPT ![i] =
                              IF ok THEN End(Advance(t)) ELSE undeployed(t)]
       /\ UNCHANGED <<msgs, uploads, tsc, call, regex>>

\* A skipped patch that is shown to the user as a warning.
PatchSkippedWithWarning(t, filePath) ==
    PushWarning(t, Output("Failed to apply search-replace", filePath))

\* Lines 497-510: the target is missing or the patch failed; the tag is
\* logged and skipped.
PatchSkipped(t, filePath) == t

\* Lines 491-536: one search-replace tag. The target is looked up and
\* readFile called in one synchronous run; readFile acts while the invocation
\* is suspended, and rejects when the target is no regular file or for any
\* other reason; the patch is applied to what was read and the result written
\* when the invocation runs again; the deploy of a unit is a second await.
SearchReplaceStep(i) ==
    LET s == inv[i]
        d == s.app.dir
        tag == getDyadSearchReplaceTags(s.fullResponse)[s.idx]
        filePath == tag.path
        isFile == fs[d][filePath].kind = "file"
        isDir == fs[d][filePath].kind = "dir"
        settled == s.locals.settled
        result == applySearchReplace(s.locals.original, tag.content)
        applies == result.success /\ result.hasContent
        canWrite == /\ ~isDir
                    /\ \A a \in Ancestors(filePath) : fs[d][a].kind = "dir"
        unit == isServerFunction(filePath)
        failed(t) == PushError(t, Output("Error applying search-replace", filePath))
    IN /\ s.pc = "searchReplace"
       /\ \E ok \in BOOLEAN :
            /\ Allowed(s, <<ok>>)
            /\ CASE s.awaiting = "" ->
                      /\ ok
                      /\ UNCHANGED <<fs, git>>
                      /\ inv' = [inv EXCEPT ![i] =
                           Go(IF Exists(fs[d], filePath)
                              THEN Hold(s, s, "readFile")
                              ELSE Advance(PatchSkipped(s, filePath)))]
                 [] s.awaiting = "readFile" /\ ~settled ->
                      /\ ok \/ isFile
                      /\ UNCHANGED <<fs, git>>
                      /\ inv' = [inv EXCEPT ![i] =
                           IF isFile /\ ok
                           THEN Hold(s, [s EXCEPT !.locals.original = fs[d][filePath].data,
                                                  !.locals.settled = TRUE],
                                     "readFile")
                           ELSE End(Advance(failed(Charge(s, <<ok>>))))]
                 [] s.awaiting = "readFile" /\ settled /\ ~applies ->
                      /\ ok
                      /\ UNCHANGED <<fs, git>>
                      /\ inv' = [inv EXCEPT ![i] =
                           Go(End(Advance(PatchSkipped(s, filePath))))]
                 [] s.awaiting = "readFile" /\ settled /\ applies ->
                      LET wrote == ok /\ canWrite
                          t == Record(Charge(s, <<wrote>>),
                                      Event("searchReplace", "writeFileSync",
                                            filePath, wrote))
                      IN /\ fs' = IF wrote
                                  THEN [fs EXCEPT ![d] =
                                          WriteFile(@, filePath, result.content)]
                                  ELSE fs
                         /\ git' = IF wrote
                                   THEN [git EXCEPT ![d] = Touch(@, {filePath})]
                                   ELSE git
                         /\ inv' = [inv EXCEPT ![i] =
                              Go(IF ~wrote THEN End(Advance(failed(t)))
                                 ELSE IF unit
                                 THEN Hold(s, PushWritten(t, filePath),
                                           "deploySupabaseFunctions")
                                 ELSE End(Advance(PushWritten(t, filePath))))]
                 [] OTHER ->
                      LET t == Record(Charge(s, <<ok>>),
                                      Event("searchReplace", "deploySupabaseFunctions",
                                            Basename(Dirname(filePath)), ok))
                      IN /\ UNCHANGED <<fs, git>>
                         /\ inv' = [inv EXCEPT ![i] =
                              End(Advance(
                                IF ok THEN t
                                ELSE PushError(t,
                                       Output("Failed to deploy Supabase function after search-replace",
                                              filePath))))]
       /\ UNCHANGED <<msgs, uploads, tsc, call, regex>>

\* A write that never substitutes: the tag body is written.
TagBody(tag, replaced) == tag.content

\* Lines 541-552: the content to write is the tag body, or the content read
\* from the uploaded file that the trimmed body names.
WriteContent(tag, replaced) ==
    IF replaced THEN UploadData(Trim(tag.content)[1]) ELSE tag.content

\* A failed read of the uploaded file that leaves no record.
ReadFailureIgnored(t, id) == t

\* Lines 556-564: the uploaded file could not be read; content stays the
\* tag body.
ReadFailed(t, id) == PushError(t, Output("Failed to read uploaded file", id))

\* Lines 538-590: one write tag. The uploaded file named by the body is read
\* in an await, the content is written when the invocation runs again, and
\* the deploy of a unit is a second await. A write with no upload and no
\* deploy has no await: the invocation runs on into what follows. A
\* mkdirSync or a writeFileSync that throws is caught at the top level.
WriteStep(i) ==
    LET s == inv[i]
        d == s.app.dir
        tag == getDyadWriteTags(s.fullResponse)[s.idx]
        filePath == tag.path
        trimmedContent == Trim(tag.content)
        unit == isServerFunction(filePath)
        replaced == s.locals.replaced
    IN /\ s.pc = "write"
       /\ \/ /\ s.awaiting = "readFile" \/ (s.awaiting = "" /\ ~fileInfo(s, tag))
             /\ Allowed(s, <<FALSE>>)
             /\ UNCHANGED <<fs, git>>
             /\ inv' = [inv EXCEPT ![i] = End(Throw(Charge(s, <<FALSE>>)))]
          \/ \E ok \in BOOLEAN :
            /\ Allowed(s, <<ok>>)
            /\ CASE s.awaiting = "" /\ fileInfo(s, tag) ->
                      LET r == Record(Charge(s, <<ok>>),
                                      Event("write", "readFile", trimmedContent[1], ok))
                          t == IF ok THEN r ELSE ReadFailed(r, trimmedContent[1])
                      IN /\ UNCHANGED <<fs, git>>
                         /\ inv' = [inv EXCEPT ![i] =
                              Hold(s, [t EXCEPT !.locals.replaced = ok,
                                                !.locals.settled = TRUE],
                                   "readFile")]
                 [] s.awaiting = "deploySupabaseFunctions" ->
                      LET t == Record(Charge(s, <<ok>>),
                                      Event("write", "deploySupabaseFunctions",
                                            Basename(Dirname(filePath)), ok))
                      IN /\ UNCHANGED <<fs, git>>
                         /\ inv' = [inv EXCEPT ![i] =
                              End(Advance(
                                IF ok THEN t
                                ELSE PushError(t,
                                       Output("Failed to deploy Supabase function",
                                              filePath))))]
                 [] OTHER ->
                      LET content == WriteContent(tag, replaced)
                          t == Record(Charge(s, <<ok>>),
                                      Event("write", "writeFileSync", filePath, ok))
                      IN /\ fs' = [fs EXCEPT ![d] =
                                     IF ok
                                     THEN WriteFile(MkdirParents(@, filePath),
                                                    filePath, content)
                                     ELSE MkdirParents(@, filePath)]
                         /\ git' = IF ok
                                   THEN [git EXCEPT ![d] = Touch(@, {filePath})]
                                   ELSE git
                         /\ inv' = [inv EXCEPT ![i] =
                              Go(IF ~ok THEN End(Throw(t))
                                 ELSE IF unit /\ ~replaced
                                 THEN Hold(s, PushWritten(t, filePath),
                                           "deploySupabaseFunctions")
                                 ELSE End(Advance(PushWritten(t, filePath))))]
       /\ UNCHANGED <<msgs, uploads, tsc, call, regex>>

\* A turn that counts its SQL queries as changes.
HasChangesOrSql(s) ==
    \/ Len(s.writtenFiles) > 0
    \/ Len(s.renamedFiles) > 0
    \/ Len(s.deletedFiles) > 0
    \/ Len(getDyadAddDependencyTags(s.fullResponse)) > 0
    \/ Len(dyadExecuteSqlQueries(s)) > 0

\* Line 593: whether the turn has changes to commit.
HasChanges(s) ==
    \/ Len(s.writtenFiles) > 0
    \/ Len(s.renamedFiles) > 0
    \/ Len(s.deletedFiles) > 0
    \/ Len(getDyadAddDependencyTags(s.fullResponse)) > 0

\* The summary with the kinds in the order of the steps: deleted, renamed,
\* wrote.
ChangesInStepOrder(s) ==
    (IF Len(s.deletedFiles) > 0
     THEN <<"deleted " \o ToString(Len(s.deletedFiles)) \o " file(s)">> ELSE <<>>)
    \o (IF Len(s.renamedFiles) > 0
        THEN <<"renamed " \o ToString(Len(s.renamedFiles)) \o " file(s)">> ELSE <<>>)
    \o (IF Len(s.writtenFiles) > 0
        THEN <<"wrote " \o ToString(Len(s.writtenFiles)) \o " file(s)">> ELSE <<>>)
    \o (IF Len(getDyadAddDependencyTags(s.fullResponse)) > 0
        THEN <<"added " \o JoinWith(getDyadAddDependencyTags(s.fullResponse), ", ")
                 \o " package(s)">>
        ELSE <<>>)
    \o (IF Len(dyadExecuteSqlQueries(s)) > 0
        THEN <<"executed " \o ToString(Len(dyadExecuteSqlQueries(s))) \o " SQL queries">>
        ELSE <<>>)

\* Lines 609-621: the summary of the changes, one entry per kind that occurred.
Changes(s) ==
    (IF Len(s.writtenFiles) > 0
     THEN <<"wrote " \o ToString(Len(s.writtenFiles)) \o " file(s)">> ELSE <<>>)
    \o (IF Len(s.renamedFiles) > 0
        THEN <<"renamed " \o ToString(Len(s.renamedFiles)) \o " file(s)">> ELSE <<>>)
    \o (IF Len(s.deletedFiles) > 0
        THEN <<"deleted " \o ToString(Len(s.deletedFiles)) \o " file(s)">> ELSE <<>>)
    \o (IF Len(getDyadAddDependencyTags(s.fullResponse)) > 0
        THEN <<"added " \o JoinWith(getDyadAddDependencyTags(s.fullResponse), ", ")
                 \o " package(s)">>
        ELSE <<>>)
    \o (IF Len(dyadExecuteSqlQueries(s)) > 0
        THEN <<"executed " \o ToString(Len(dyadExecuteSqlQueries(s))) \o " SQL queries">>
        ELSE <<>>)

\* Lines 623-625: the commit message.
CommitMessage(s) ==
    IF s.chatSummary # ""
    THEN "[dyad] " \o s.chatSummary \o " - " \o JoinWith(Changes(s), ", ")
    ELSE "[dyad] " \o JoinWith(Changes(s), ", ")

\* Lines 592-631: the decision to commit, then one awaited gitAdd for each
\* written file (s.idx counts them) and the awaited primary commit.
CommitStep(i) ==
    LET s == inv[i]
        d == s.app.dir
        h == [s EXCEPT !.hasChanges = HasChanges(s)]
        n == Len(s.writtenFiles)
        k == s.idx
        message == CommitMessage(s)
        next(j) == IF j <= n THEN "gitAdd" ELSE "gitCommit"
    IN /\ s.pc = "commit"
       /\ \E ok \in BOOLEAN :
            /\ Allowed(s, <<ok>>)
            /\ CASE ~h.hasChanges ->
                      /\ ok
                      /\ inv' = [inv EXCEPT ![i] = [h EXCEPT !.pc = NoChangesNext]]
                      /\ git' = git
                 [] h.hasChanges /\ k <= n ->
                      LET t == Record(Charge(h, <<ok>>),
                                      Event("commit", "gitAdd", s.writtenFiles[k], ok))
                      IN /\ inv' = [inv EXCEPT ![i] =
                              IF ok THEN Hold(s, [t EXCEPT !.idx = k + 1], next(k + 1))
                              ELSE End(Throw([t EXCEPT !.idx = 1]))]
                         /\ git' = IF ok
                                   THEN [git EXCEPT ![d] = gitAdd(@, s.writtenFiles[k])]
                                   ELSE git
                 [] OTHER ->
                      LET t == Record(Charge(h, <<ok>>),
                                      Event("commit", "gitCommit", message, ok))
                          done == gitCommit(git[d], message, FALSE)
                      IN /\ inv' = [inv EXCEPT ![i] =
                              IF ok
                              THEN End([t EXCEPT !.pc = "extra", !.idx = 1,
                                                 !.commitHash = done.seq])
                              ELSE End(Throw([t EXCEPT !.idx = 1]))]
                         /\ git' = IF ok THEN [git EXCEPT ![d] = done] ELSE git
       /\ UNCHANGED <<fs, msgs, uploads, tsc, call, regex>>

\* Lines 646-656: the amend failed; the error is kept as a string and the
\* function goes on.
AmendFailed(t) ==
    [t EXCEPT !.pc = "saveHash", !.extraFilesError = "Error: amend failed"]

\* Lines 633-658: the files left uncommitted are listed, staged and the commit
\* amended, in three awaits.
ExtraFilesStep(i) ==
    LET s == inv[i]
        d == s.app.dir
        files == getGitUncommittedFiles(git[d])
        message == CommitMessage(s) \o " + extra files edited outside of Dyad"
    IN /\ s.pc = "extra"
       /\ \E ok \in BOOLEAN :
            /\ Allowed(s, <<ok>>)
            /\ CASE s.awaiting = "" ->
                      LET c == Record(Charge(s, <<ok>>),
                                      Event("commit", "getGitUncommittedFiles", "", ok))
                          u == [c EXCEPT !.uncommittedFiles = files]
                      IN /\ inv' = [inv EXCEPT ![i] =
                              IF ~ok THEN Throw(c)
                              ELSE IF files = {} THEN [u EXCEPT !.pc = "saveHash"]
                              ELSE Hold(s, u, "gitAddAll")]
                         /\ git' = git
                 [] s.awaiting = "gitAddAll" ->
                      LET t == Record(Charge(s, <<ok>>),
                                      Event("commit", "gitAddAll", "", ok))
                      IN /\ inv' = [inv EXCEPT ![i] =
                              IF ok THEN Hold(s, t, "gitCommit") ELSE End(Throw(t))]
                         /\ git' = IF ok THEN [git EXCEPT ![d] = gitAddAll(@)] ELSE git
                 [] OTHER ->
                      LET t == Record(Charge(s, <<ok>>),
                                      Event("commit", "gitCommitAmend", message, ok))
                          done == gitCommit(git[d], message, TRUE)
                      IN /\ inv' = [inv EXCEPT ![i] =
                              IF ok
                              THEN End([t EXCEPT !.pc = "saveHash",
                                                 !.commitHash = done.seq])
                              ELSE End(AmendFailed(t))]
                         /\ git' = IF ok THEN [git EXCEPT ![d] = done] ELSE git
       /\ UNCHANGED <<fs, msgs, uploads, tsc, call, regex>>

\* Lines 660-666: the commit hash is saved to the message.
SaveCommitHash(i) ==
    LET s == inv[i]
    IN /\ s.pc = "saveHash"
       /\ \E ok \in BOOLEAN :
            /\ Allowed(s, <<ok>>)
            /\ LET c == Record(Charge(s, <<ok>>),
                               Event("commit", "updateCommitHash", "", ok))
               IN IF ok
                  THEN /\ inv' = [inv EXCEPT ![i] = [c EXCEPT !.pc = "approve"]]
                       /\ msgs' = [msgs EXCEPT ![messageId(i)].commitHash = s.commitHash]
                  ELSE /\ inv' = [inv EXCEPT ![i] = Throw(c)]
                       /\ msgs' = msgs
       /\ UNCHANGED <<fs, git, uploads, tsc, call, regex>>

\* Lines 668-681: the message is approved and the result summary returned.
Approve(i) ==
    LET s == inv[i]
    IN /\ s.pc = "approve"
       /\ \E ok \in BOOLEAN :
            /\ Allowed(s, <<ok>>)
            /\ LET c == Record(Charge(s, <<ok>>),
                               Event("approve", "updateApprovalState", "", ok))
               IN IF ok
                  THEN /\ inv' = [inv EXCEPT ![i] =
                                    [c EXCEPT !.pc = "finally",
                                              !.result = Result("summary", s.hasChanges,
                                                  s.uncommittedFiles, s.extraFilesError)]]
                       /\ msgs' = [msgs EXCEPT ![messageId(i)].approvalState = "approved"]
                  ELSE /\ inv' = [inv EXCEPT ![i] = Throw(c)]
                       /\ msgs' = msgs
       /\ UNCHANGED <<fs, git, uploads, tsc, call, regex>>

\* An update that appends the annotation block to the content in the store.
AppendToStored(s, stored) ==
    [stored EXCEPT !.appended = TRUE, !.warnings = s.warnings, !.errors = s.errors]

\* Lines 686-706: the content set is fullResponse, the argument of the
\* invocation, followed by the block; what the store holds is not read.
FinalContent(s, stored) == Content(FALSE, TRUE, s.warnings, s.errors)

\* Lines 685-708: the annotations are appended to the stored response text.
Finally(i) ==
    LET s == inv[i]
    IN /\ s.pc = "finally"
       /\ \E ok \in BOOLEAN :
            LET c == Record(Charge(s, <<ok>>),
                            Event("finally", "updateContent", "", ok))
            IN /\ Allowed(s, <<ok>>)
               /\ inv' = [inv EXCEPT ![i] =
                            IF ok THEN [c EXCEPT !.pc = "done"]
                            ELSE [c EXCEPT !.pc = "done", !.result = Rejected]]
               /\ msgs' = IF ok /\ msgs[messageId(i)].row # "none"
                          THEN [msgs EXCEPT ![messageId(i)].content = FinalContent(s, @)]
                          ELSE msgs
       /\ UNCHANGED <<fs, git, uploads, tsc, call, regex>>

Next ==
    \E i \in Invocations :
      /\ Runs(i)
      /\
        \/ Begin(i)
        \/ FindChat(i)
        \/ PreStep(i)
        \/ FindMessage(i)
        \/ SqlStep(i)
        \/ AddDependencyStep(i)
        \/ DeleteStep(i)
        \/ RenameStep(i)
        \/ SearchReplaceStep(i)
        \/ WriteStep(i)
        \/ CommitStep(i)
        \/ ExtraFilesStep(i)
        \/ SaveCommitHash(i)
        \/ Approve(i)
        \/ Finally(i)

Spec == Init /\ [][Next]_vars

\* The same pipeline on the dependency inputs.
SpecDeps == InitDeps /\ [][Next]_vars

\* The same pipeline on the inputs on units.
SpecUnits == InitUnits /\ [][Next]_vars

\* FileUploadsState.addFileUpload: a file attached to the next prompt of a
\* chat is registered under its identifier, between two turns of the chat or
\* while a turn is suspended in an awaited call.
addFileUpload(c) ==
    /\ inv[c].pc # "idle"
    /\ \A j \in Invocations : ~inv[j].running
    /\ LaterUploadId \notin uploads[chatId(c)]
    /\ uploads' = [uploads EXCEPT ![chatId(c)] = @ \cup {LaterUploadId}]
    /\ UNCHANGED <<inv, fs, git, msgs, tsc, call, regex>>

\* Lines 220-235: the next call of processFullResponseActions for the same
\* chat, on the response to the next prompt and a new message row.
NextTurn(i) ==
    /\ inv[i].pc = "done"
    /\ inv[i].fullResponse \in TurnOne
    /\ \E response \in TurnTwo, chatSummary \in ChatSummaries :
         inv' = [inv EXCEPT ![i] =
                   Started(response, inv[i].app,
                           inv[i].enableSupabaseWriteSqlMigration,
                           chatSummary)]
    /\ msgs' = [msgs EXCEPT ![messageId(i)] = Message("assistant")]
    /\ UNCHANGED <<fs, git, uploads, tsc, call, regex>>

NextUploads ==
    \/ Next
    \/ \E i \in Invocations : addFileUpload(i)
    \/ \E i \in Invocations : NextTurn(i)

\* Two turns of one chat on the upload inputs.
SpecUploads == InitUploads /\ [][NextUploads]_vars

\* Two invocations whose steps interleave.
SpecTwo == InitTwo /\ [][Next]_vars

\* ------------------------------------------------- the compile check (tsc.ts)
\* What the worker posts: a report, a success without data, an error text,
\* a failure without text.
WorkerOutput(success, data, error) ==
    [success |-> success, data |-> data, error |-> error]
WorkerOutputs ==
    {WorkerOutput(TRUE, "report", ""), WorkerOutput(TRUE, "", ""),
     WorkerOutput(FALSE, "", "tsc failed"), WorkerOutput(FALSE, "", "")}
ExitCodes == {0, 1, 2}

\* Virtual changes that carry no tag of the response.
NoVirtualChanges(fullResponse) ==
    [deletePaths |-> <<>>, renameTags |-> <<>>, writeTags |-> <<>>]

\* Lines 123-132: the virtual changes sent to the worker.
virtualChanges(fullResponse) ==
    [deletePaths |-> getDyadDeleteTags(fullResponse),
     renameTags |-> getDyadRenameTags(fullResponse),
     writeTags |-> getDyadWriteTags(fullResponse)]

\* getTypeScriptCachePath(): the directory of the incremental build
\* information, outside the project directories.
TypeScriptCachePath == "typescript-cache"

\* Lines 135-139: the input posted to the worker.
WorkerInput(fullResponse, appPath) ==
    [virtualChanges |-> virtualChanges(fullResponse),
     appPath |-> appPath,
     tsBuildInfoCacheDir |-> TypeScriptCachePath]


\* resolve and reject of a promise: the first call settles it, later calls
\* do nothing.
Settle(promise, state, value) ==
    IF promise.state = "pending" THEN Promise(state, value) ELSE promise

\* An event of the worker as its handler receives it: the output of a
\* message, the code of an exit.
NoOutput == WorkerOutput(FALSE, "", "")
Received(type, output, code) == [type |-> type, output |-> output, code |-> code]
Receive(t, event) == [t EXCEPT !.events = Append(@, event)]

\* An exit reported with the text of an unknown logical error.
ExitAsUnknown(code) == "Unknown worker error"

\* Line 119: new Error("Worker exited with code " + code).
ExitError(code) == "Worker exited with code " \o ToString(code)

\* A call made by the handler of an event of the worker.
Call(on, op) == [on |-> on, op |-> op]

\* A handler that leaves the worker running.
NotTerminated(t, on) == t

\* Lines 94 and 110: worker.terminate().
terminate(t, on) ==
    [t EXCEPT !.worker = "terminating", !.calls = Append(@, Call(on, "terminate"))]

\* Lines 99, 103, 111 and 119: resolve(data) and reject(error).
resolve(t, on, data) ==
    [t EXCEPT !.promise = Settle(@, "resolved", data),
              !.calls = Append(@, Call(on, "resolve"))]
reject(t, on, error) ==
    [t EXCEPT !.promise = Settle(@, "rejected", error),
              !.calls = Append(@, Call(on, "reject"))]

\* A call of generateProblemReport on one of the core responses; no
\* invocation of the orchestrator runs.
InitReport ==
    \E response \in Responses(CoreTags), appPath \in Dirs :
        /\ inv = [i \in Invocations |-> Idle]
        /\ fs = [d \in Dirs |-> InitialTree]
        /\ git = [d \in Dirs |-> CleanRepo]
        /\ msgs = [m \in Invocations |-> Message("none")]
        /\ uploads = [c \in Invocations |-> {}]
        /\ tsc = [NoCheck EXCEPT !.fullResponse = response, !.appPath = appPath]
        /\ call = NoCall
        /\ regex = FreshRegex

\* Lines 82-145: the promise is created, the worker started, the handlers
\* registered and the input posted.
generateProblemReport ==
    /\ tsc.worker = "none"
    /\ tsc' = [tsc EXCEPT !.worker = "running",
                          !.input = WorkerInput(tsc.fullResponse, tsc.appPath),
                          !.promise = Promise("pending", "")]
    /\ UNCHANGED <<inv, fs, git, msgs, uploads, call, regex>>

\* The worker's events in every order the event loop can deliver them, at
\* most MaxEvents of them, the exit being the last.
MaxEvents == 4

\* A message or an error reaches its handler while the worker runs, or after
\* terminate() was called, when it was in flight already.
Delivered ==
    \/ tsc.worker = "running"
    \/ tsc.worker = "terminating" /\ Len(tsc.events) < MaxEvents - 1

\* Lines 93-105: the worker posted its output; it is terminated and the
\* promise resolved with the report, or rejected.
OnMessage ==
    /\ Delivered
    /\ \E output \in WorkerOutputs :
         LET t == Receive(tsc, Received("message", output, 0))
         IN tsc' = IF output.success /\ output.data # ""
                   THEN resolve(terminate(t, "message"), "message", output.data)
                   ELSE reject(terminate(t, "message"), "message",
                               IF output.error # "" THEN output.error
                               ELSE "Unknown worker error")
    /\ UNCHANGED <<inv, fs, git, msgs, uploads, call, regex>>

\* Lines 108-112: the worker raised an error; it is terminated and the
\* promise rejected.
OnError ==
    /\ Delivered
    /\ tsc' = reject(terminate(Receive(tsc, Received("error", NoOutput, 0)), "error"),
                     "error", "worker error")
    /\ UNCHANGED <<inv, fs, git, msgs, uploads, call, regex>>

\* An exit handler that rejects whatever the code.
ExitAlwaysRejects(code) == TRUE

\* Line 116: if (code !== 0).
ExitRejects(code) == code # 0

\* Lines 115-121: the worker exited, by itself or after terminate(), with
\* some code; a code other than 0 rejects the promise.
OnExit ==
    /\ tsc.worker \in {"running", "terminating"}
    /\ \E code \in ExitCodes :
         tsc' = LET t == [Receive(tsc, Received("exit", NoOutput, code))
                             EXCEPT !.worker = "exited"]
                IN IF ExitRejects(code) THEN reject(t, "exit", ExitError(code)) ELSE t
    /\ UNCHANGED <<inv, fs, git, msgs, uploads, call, regex>>

\* The type check does not return: the worker posts nothing, raises nothing
\* and does not exit.
WorkerHangs ==
    /\ tsc.worker = "running"
    /\ tsc' = [tsc EXCEPT !.worker = "hung"]
    /\ UNCHANGED <<inv, fs, git, msgs, uploads, call, regex>>

NextReport ==
    \/ generateProblemReport
    \/ OnMessage
    \/ OnError
    \/ OnExit
    \/ WorkerHangs

SpecReport == InitReport /\ [][NextReport]_vars

\* The event loop runs every handler whose event has arrived, and a worker
\* that can still act does so or hangs for good.
SpecReportLive == SpecReport /\ WF_vars(NextReport)

\* ------------------------------------------------ dryRunSearchReplace
Issue(filePath, error) == [filePath |-> filePath, error |-> error]

\* A check that accepts every result of the patch engine.
NeverUnusable(result) == FALSE

\* Lines 172 and 504: !result.success || typeof result.content !== "string".
Unusable(result) == ~result.success \/ ~result.hasContent

\* Lines 159-165: the issue of a target that existsSync does not find.
DryRunMissing(filePath) ==
    Issue(filePath, "Search-replace target file does not exist: " \o filePath)

\* Lines 172-178: the issue of a result that cannot be used.
DryRunUnusable(filePath, result) ==
    Issue(filePath,
          "Unable to apply search-replace to file because: " \o result.error)

\* Lines 180-186: the issue of an error caught in the loop body.
DryRunCaught(filePath, error) == Issue(filePath, error)

\* What readFile rejects with: the target was removed after existsSync found
\* it, it is a directory, or the read fails for a reason of its own.
ReadError(tree, filePath, ok) ==
    IF ~Exists(tree, filePath)
    THEN "Error: ENOENT: no such file or directory, open '" \o filePath \o "'"
    ELSE IF tree[filePath].kind = "dir"
    THEN "Error: EISDIR: illegal operation on a directory, read"
    ELSE IF ~ok THEN "Error: EIO: i/o error, read"
    ELSE ""

RECURSIVE DryScan(_, _, _)
\* Lines 153-167 and 188: the loop runs on from tag k without an await, with
\* an issue for every tag whose target existsSync does not find, up to the
\* first tag whose target exists, where it is suspended in readFile, or up to
\* the return.
DryScan(dr, tags, tree) ==
    IF dr.k > Len(tags) THEN [dr EXCEPT !.state = "returned"]
    ELSE LET filePath == tags[dr.k].path
         IN IF Exists(tree, filePath)
            THEN [dr EXCEPT !.state = "readFile"]
            ELSE DryScan(
                   [dr EXCEPT !.k = @ + 1,
                              !.issues = Append(@, DryRunMissing(filePath)),
                              !.seen = Append(@, Seen(dr.k, tree,
                                                      <<DryRunMissing(filePath)>>,
                                                      FALSE, FALSE))],
                   tags, tree)

\* The steps of the pipeline that change files: a pre-flight check is called
\* while the invocation is in one of them.
FileSteps == {"delete", "rename", "searchReplace", "write"}

\* Lines 142-167: a call of dryRunSearchReplace({fullResponse, appPath}) for
\* the response of invocation i, made while the invocation is suspended. The
\* call runs up to its first await or to its return.
dryRunSearchReplace(i) ==
    LET s == inv[i]
        tree == fs[s.app.dir]
    IN /\ s.pc \in FileSteps
       /\ s.dry.state = "none"
       /\ \A j \in Invocations : ~inv[j].running
       /\ inv' = [inv EXCEPT ![i].dry =
                    DryScan([NoDryRun EXCEPT !.calledOn = <<tree>>],
                            getDyadSearchReplaceTags(s.fullResponse), tree)]
       /\ UNCHANGED <<fs, git, msgs, uploads, tsc, call, regex>>

\* Line 168: readFile acts while the call is suspended. It answers with the
\* content the target holds at that moment, or rejects.
DryRunReadFile(i) ==
    LET s == inv[i]
        dr == s.dry
        tree == fs[s.app.dir]
        filePath == getDyadSearchReplaceTags(s.fullResponse)[dr.k].path
        isFile == tree[filePath].kind = "file"
    IN /\ dr.state = "readFile"
       /\ \A j \in Invocations : ~inv[j].running
       /\ \E ok \in BOOLEAN :
            /\ ok \/ isFile
            /\ ok \/ Cardinality({n \in DOMAIN dr.seen : dr.seen[n].failed})
                        < MaxFaults
            /\ inv' = [inv EXCEPT ![i].dry =
                         [dr EXCEPT !.state = "read",
                                    !.original = IF isFile /\ ok
                                                 THEN tree[filePath].data
                                                 ELSE <<>>,
                                    !.rejected = ReadError(tree, filePath, ok),
                                    !.failed = isFile /\ ~ok,
                                    !.readOn = <<tree>>]]
       /\ UNCHANGED <<fs, git, msgs, uploads, tsc, call, regex>>

\* Lines 168-188: the call runs again with what readFile answered: the patch
\* is applied to the content read and an unusable result gives an issue, a
\* rejection is caught and gives an issue; then the loop runs on.
DryRunResume(i) ==
    LET s == inv[i]
        dr == s.dry
        tags == getDyadSearchReplaceTags(s.fullResponse)
        tag == tags[dr.k]
        filePath == tag.path
        result == applySearchReplace(dr.original, tag.content)
        issue == IF dr.rejected # ""
                 THEN <<DryRunCaught(filePath, dr.rejected)>>
                 ELSE IF Unusable(result)
                 THEN <<DryRunUnusable(filePath, result)>>
                 ELSE <<>>
        next == [dr EXCEPT !.k = @ + 1,
                           !.issues = @ \o issue,
                           !.seen = Append(@, Seen(dr.k, dr.readOn[1], issue,
                                                   dr.failed,
                                                   ~Exists(dr.readOn[1], filePath))),
                           !.original = <<>>,
                           !.rejected = "",
                           !.failed = FALSE,
                           !.readOn = <<>>]
    IN /\ dr.state = "read"
       /\ \A j \in Invocations : ~inv[j].running
       /\ inv' = [inv EXCEPT ![i].dry = DryScan(next, tags, fs[s.app.dir])]
       /\ UNCHANGED <<fs, git, msgs, uploads, tsc, call, regex>>

\* Patches of a file that holds the searched line, of one that does not, of
\* a path that is missing, of a directory, and a patch with broken markup.
PatchMissing == SearchReplaceTag(CTs, PatchBody)
PatchDirectory == SearchReplaceTag(FunctionsDir, PatchBody)
PatchMalformed == SearchReplaceTag(BTs, <<SearchMark, "let b = 1;">>)
DryTags == {PatchB, PatchOld, PatchMissing, PatchDirectory, PatchMalformed}

DryCases ==
    (Responses(DryTags) \X {Setup(LinkedApp, FALSE, "assistant", {})})
        \cup {<<AllKindsReversed, Setup(FullApp, TRUE, "assistant", {UserFile})>>}

InitDry == InitIn(DryCases, {UnitsTree}, {{}})

NextDry ==
    \/ Next
    \/ \E i \in Invocations : dryRunSearchReplace(i)
    \/ \E i \in Invocations : DryRunReadFile(i)
    \/ \E i \in Invocations : DryRunResume(i)

\* The pipeline with pre-flight checks of its search-replace tags.
SpecDry == InitDry /\ [][NextDry]_vars

\* ------------------------------------------------------ tag parser calls
RECURSIVE WithoutPath(_)
\* The tags whose attributes did not match path="([^"]+)".
WithoutPath(tags) ==
    IF tags = <<>> THEN <<>>
    ELSE IF Head(tags).path = ""
         THEN <<Head(tags)>> \o WithoutPath(Tail(tags))
         ELSE WithoutPath(Tail(tags))

\* logger.warn of a tag without path.
Warning(kind) == "Found <" \o kind \o "> tag without a valid 'path' attribute:"

\* A parser that logs nothing.
Silent(fullResponse) == <<>>

\* Lines 672-676: one logger.warn per write tag without path.
getDyadWriteTagsLog(fullResponse) ==
    [k \in 1..Len(WithoutPath(SelectTags(fullResponse, "dyad-write"))) |->
        Warning("dyad-write")]

\* Lines 969-973: one logger.warn per search-replace tag without path.
getDyadSearchReplaceTagsLog(fullResponse) ==
    [k \in 1..Len(WithoutPath(SelectTags(fullResponse, "dyad-search-replace"))) |->
        Warning("dyad-search-replace")]

\* Lines 738-750: the delete parser has no logger call; a tag that does not
\* match path="..." right after the tag name is not seen at all.
getDyadDeleteTagsLog(fullResponse) == <<>>

\* One call of a parser on an input, in a process where nothing else runs.
InitCall(inputs) ==
    \E input \in inputs :
        /\ inv = [i \in Invocations |-> Idle]
        /\ fs = [d \in Dirs |-> InitialTree]
        /\ git = [d \in Dirs |-> CleanRepo]
        /\ msgs = [m \in Invocations |-> Message("none")]
        /\ uploads = [c \in Invocations |-> {}]
        /\ tsc = NoCheck
        /\ call = [NoCall EXCEPT !.input = input]
        /\ regex = FreshRegex

Return(fn, output, log) ==
    /\ call.fn # fn
    /\ call' = Called(fn, call.input, output, log)
    /\ UNCHANGED <<inv, fs, git, msgs, uploads, tsc, regex>>

CallWriteTags ==
    Return("getDyadWriteTags", getDyadWriteTags(call.input),
           getDyadWriteTagsLog(call.input))
CallRenameTags ==
    Return("getDyadRenameTags", getDyadRenameTags(call.input), <<>>)
CallDeleteTags ==
    Return("getDyadDeleteTags", getDyadDeleteTags(call.input),
           getDyadDeleteTagsLog(call.input))
CallAddDependencyTags ==
    Return("getDyadAddDependencyTags", getDyadAddDependencyTags(call.input), <<>>)
CallExecuteSqlTags ==
    Return("getDyadExecuteSqlTags", getDyadExecuteSqlTags(call.input), <<>>)
CallSearchReplaceTags ==
    Return("getDyadSearchReplaceTags", getDyadSearchReplaceTags(call.input),
           getDyadSearchReplaceTagsLog(call.input))

NextParse ==
    \/ CallWriteTags
    \/ CallRenameTags
    \/ CallDeleteTags
    \/ CallAddDependencyTags
    \/ CallExecuteSqlTags
    \/ CallSearchReplaceTags

\* Tags with and without their path attribute.
WriteB == WriteTag(BTs, NewContent)
WriteNoPath == WriteTag("", NewContent)
PatchNoPath == SearchReplaceTag("", PatchBody)
DeleteNoPath == DeleteTag("")
ParseTags ==
    {WriteOld, WriteNoPath, PatchB, PatchNoPath, DeleteOld, DeleteNoPath,
     RenameBToOld, AddLeftRight, SqlCreate}
ParseScenarios ==
    {<<WriteOld, WriteNoPath, WriteB>>, <<PatchB, PatchNoPath, PatchOld>>,
     <<DeleteOld, DeleteNoPath, DeleteTag(BTs)>>}

InitParse == InitCall(Responses(ParseTags) \cup ParseScenarios)

\* The parsers on responses whose tags may lack their path.
SpecParse == InitParse /\ [][NextParse]_vars

\* Bodies of up to MaxLines lines: fence lines with and without a language,
\* blank lines and text. One tag with such a body, of each kind that has one.
MaxLines == 4
BodyLines == {Fence \o "ts", Fence, "", "x"}
Bodies == UNION {[1..n -> BodyLines] : n \in 0..MaxLines}
FenceResponses ==
    {<<WriteTag(OldTs, body)>> : body \in Bodies}
        \cup {<<ExecuteSqlTag(body)>> : body \in Bodies}
        \cup {<<SearchReplaceTag(OldTs, body)>> : body \in Bodies}

InitFences == InitCall(FenceResponses)

\* The parsers on tags whose bodies hold fence lines.
SpecFences == InitFences /\ [][NextParse]_vars

\* Packages attributes of up to MaxChars characters: letters, spaces, tabs
\* and newlines. The attribute matches ([^"]+), so it is never empty.
MaxChars == 4
PackageChars == {"a", "b", " ", "\t", "\n"}
PackageLists == UNION {[1..n -> PackageChars] : n \in 1..MaxChars}

InitPackages == InitCall({<<AddDependencyTag(chars)>> : chars \in PackageLists})

\* The parsers on one add-dependency tag.
SpecPackages == InitPackages /\ [][NextParse]_vars

\* ----------------------------------------------------- parseAppMentions
\* A prompt is a sequence of characters. The characters of the model that
\* the class [a-zA-Z0-9_-] holds:
NameChars == {"a", "p", "A", "P", "x", "1", "_", "-"}
MentionPrefix == <<"@", "a", "p", "p", ":">>

RECURSIVE Join(_)
Join(chars) == IF chars = <<>> THEN "" ELSE Head(chars) \o Join(Tail(chars))

\* A name cut after its first character.
OneChar(chars, k) == k

RECURSIVE NameEnd(_, _)
\* ([a-zA-Z0-9_-]+) is greedy: the last position of the run that starts at k.
NameEnd(chars, k) ==
    IF k < Len(chars) /\ chars[k + 1] \in NameChars
    THEN NameEnd(chars, k + 1) ELSE k

\* /@app:([a-zA-Z0-9_-]+)/ matches at position k.
MatchesAt(chars, k) ==
    /\ k + Len(MentionPrefix) <= Len(chars)
    /\ SubSeq(chars, k, k + Len(MentionPrefix) - 1) = MentionPrefix
    /\ chars[k + Len(MentionPrefix)] \in NameChars

\* An exec that leaves lastIndex where the search started when nothing
\* matches.
execWithoutReset(chars, lastIndex) ==
    LET at == {k \in lastIndex..Len(chars) : MatchesAt(chars, k)}
    IN IF at = {} THEN [found |-> FALSE, name |-> "", lastIndex |-> lastIndex]
       ELSE LET k == CHOOSE x \in at : \A y \in at : x <= y
                first == k + Len(MentionPrefix)
                last == NameEnd(chars, first)
            IN [found |-> TRUE, name |-> Join(SubSeq(chars, first, last)),
                lastIndex |-> last + 1]

\* MENTION_REGEX.exec(prompt) with the search starting at lastIndex: the
\* leftmost match, its captured name and the new lastIndex; or no match, and
\* lastIndex back at the start.
exec(chars, lastIndex) ==
    LET at == {k \in lastIndex..Len(chars) : MatchesAt(chars, k)}
    IN IF at = {} THEN [found |-> FALSE, name |-> "", lastIndex |-> 1]
       ELSE LET k == CHOOSE x \in at : \A y \in at : x <= y
                first == k + Len(MentionPrefix)
                last == NameEnd(chars, first)
            IN [found |-> TRUE, name |-> Join(SubSeq(chars, first, last)),
                lastIndex |-> last + 1]

RECURSIVE Mentions(_, _, _)
\* Lines 22-24: the loop that pushes the captured name of every match.
Mentions(chars, lastIndex, mentions) ==
    LET match == exec(chars, lastIndex)
    IN IF match.found
       THEN Mentions(chars, match.lastIndex, Append(mentions, match.name))
       ELSE mentions

parseAppMentions(prompt) == Mentions(prompt, 1, <<>>)

\* Prompts of up to MaxPieces pieces: the prefix, the prefix with capitals,
\* an at sign, name characters and a space.
MaxPieces == 4
Pieces ==
    {MentionPrefix, <<"@", "A", "p", "p", ":">>, <<"@", "A", "P", "P", ":">>,
     <<"@">>, <<"x">>, <<"1">>, <<"_">>, <<"-">>, <<" ">>}
RECURSIVE Flatten(_)
Flatten(pieces) ==
    IF pieces = <<>> THEN <<>> ELSE Head(pieces) \o Flatten(Tail(pieces))
Prompts == {Flatten(pieces) : pieces \in UNION {[1..n -> Pieces] : n \in 0..MaxPieces}}

InitMentions == InitCall(Prompts)

CallParseAppMentions ==
    Return("parseAppMentions", parseAppMentions(call.input), <<>>)

\* parseAppMentions on bounded prompts.
SpecMentions == InitMentions /\ [][CallParseAppMentions]_vars

RECURSIVE LastIndexAfter(_, _)
\* Lines 22-24: lastIndex of the shared regex when the loop has ended.
LastIndexAfter(chars, lastIndex) ==
    LET match == exec(chars, lastIndex)
    IN IF match.found THEN LastIndexAfter(chars, match.lastIndex)
       ELSE match.lastIndex

\* The prompts of a sequence of calls: one mention, two mentions, a mention
\* after other text, a name that continues, the prefix alone, and no text.
OneMention == MentionPrefix \o <<"x">>
CallPrompts ==
    {OneMention, OneMention \o <<" ">> \o MentionPrefix \o <<"1">>,
     <<"x", " ">> \o OneMention, OneMention \o <<"1">>, MentionPrefix, <<>>}
MaxCalls == MaxTags + 1

\* Lines 13-27: one more call of parseAppMentions in the same process; the
\* loop starts where the shared regex stands and leaves it where the last
\* exec put it. The prompts and the results of the calls are kept in order.
CallParseAppMentionsAgain ==
    /\ Len(call.input) < MaxCalls
    /\ \E prompt \in CallPrompts :
         /\ call' = Called("parseAppMentions", Append(call.input, prompt),
                           Append(call.output,
                                  Mentions(prompt, regex.lastIndex, <<>>)),
                           <<>>)
         /\ regex' = [regex EXCEPT !.lastIndex = LastIndexAfter(prompt, @)]
    /\ UNCHANGED <<inv, fs, git, msgs, uploads, tsc>>

\* Any sequence of up to MaxCalls calls of parseAppMentions in one process.
SpecMentionCalls == InitCall({<<>>}) /\ [][CallParseAppMentionsAgain]_vars

\* ------------------------------------------- actions of the same kind
\* Two writes of old.ts with different contents, a write of b.ts, deletes and
\* renames of the two files; and three-tag responses that write old.ts twice.
AgainContent == <<"export const x = 2;">>
WriteOldAgain == WriteTag(OldTs, AgainContent)
DeleteB == DeleteTag(BTs)
RenameOldToC == RenameTag(OldTs, CTs)
OrderTags ==
    {WriteOld, WriteOldAgain, WriteB, DeleteOld, DeleteB, RenameBToOld, RenameOldToC}
OrderScenarios ==
    {<<WriteOld, WriteB, WriteOldAgain>>, <<WriteOldAgain, WriteOld, WriteB>>,
     <<WriteOld, DeleteOld, WriteOldAgain>>}
OrderCases ==
    ((Responses(OrderTags) \cup OrderScenarios)
         \X {Setup(LinkedApp, FALSE, "assistant", {})})
        \cup {<<AllKindsReversed, Setup(FullApp, TRUE, "assistant", {UserFile})>>}

InitOrder == InitWith(OrderCases)

\* The pipeline on responses with several actions of one kind.
SpecOrder == InitOrder /\ [][Next]_vars

\* ------------------------------------- deletes and renames of missing paths
\* A rename of a missing file to the entry file of a unit.
RenameMissingToUnit == RenameTag(CTs, HelloIndex)
MissingTags == {DeleteHello, DeleteMissing, RenameFromUnit, RenameMissingToUnit, RenameMissing}

\* Every response over these tags, in a project without and with the unit
\* supabase/functions/hello, and one response with every kind of tag.
MissingCases ==
    (Responses(MissingTags) \X UnitsSetups)
        \cup {<<AllKindsReversed, Setup(FullApp, TRUE, "assistant", {})>>}
InitMissing == InitIn(MissingCases, {InitialTree, UnitsTree}, {{}})
SpecMissing == InitMissing /\ [][Next]_vars

\* ------------------------------------------- patches that follow each other
\* A patch of the line that PatchB leaves in b.ts.
PatchBAgain ==
    SearchReplaceTag(BTs, <<SearchMark, "let b = 2;", SepMark, "let b = 3;", ReplaceMark>>)
ComposeTags == {PatchB, PatchBAgain, PatchOld, PatchMalformed, RenameBToOld}
ComposeCases ==
    (Responses(ComposeTags) \X {Setup(LinkedApp, FALSE, "assistant", {})})
        \cup {<<AllKindsReversed, Setup(FullApp, TRUE, "assistant", {UserFile})>>}
InitCompose == InitIn(ComposeCases, {InitialTree}, {{}})

\* The pipeline on these responses, with pre-flight checks.
SpecCompose == InitCompose /\ [][NextDry]_vars

\* ===================================================================== claims
\* The invocation under study runs in slot 1; Dir is its project directory.
Slot == inv[1]
Dir == fs[Slot.app.dir]
Repo == git[Slot.app.dir]
Row == msgs[messageId(1)]

\* The positions of the trace whose event satisfies a condition.
EventsOf(step, op) ==
    {k \in DOMAIN Slot.trace : Slot.trace[k].step = step /\ Slot.trace[k].op = op}
StepEvents(step) == {k \in DOMAIN Slot.trace : Slot.trace[k].step = step}
FailedEvents(step, op) == {k \in EventsOf(step, op) : ~Slot.trace[k].ok}

\* The failures of the calls that leave no event: the lookups of the chat and
\* of the message, the reads of a patched or renamed file, mkdirSync.
Unrecorded == Slot.faults - Cardinality({k \in DOMAIN Slot.trace : ~Slot.trace[k].ok})
FinalUpdateFailed == FailedEvents("finally", "updateContent") # {}

MutationSteps == {"sql", "deps", "delete", "rename", "searchReplace", "write"}

\* What a commit message starts with: the product marker, then the chat
\* summary and a dash when the caller passed a summary.
Marker == IF Slot.chatSummary = "" THEN "[dyad] "
          ELSE "[dyad] " \o Slot.chatSummary \o " - "

\* SQL, then dependencies, deletions, renames, patches, writes.
StepRank(step) ==
    CASE step = "sql" -> 1
      [] step = "deps" -> 2
      [] step = "delete" -> 3
      [] step = "rename" -> 4
      [] step = "searchReplace" -> 5
      [] step = "write" -> 6
      [] step = "commit" -> 7
      [] step = "approve" -> 8
      [] step = "finally" -> 9
      [] OTHER -> 0

\* C1: whatever the textual order of the tags, the calls of an invocation are
\* made step by step in the order SQL, dependencies, deletions, renames,
\* search-replace patches, writes (then commit, approval, annotations): a call
\* of a later step is never followed by a call of an earlier one, so that no
\* two steps are in progress together.
C1_FixedStepOrder ==
    \A i \in Invocations :
        \A n \in DOMAIN inv[i].trace :
            \A m \in 1..n - 1 :
                StepRank(inv[i].trace[m].step) <= StepRank(inv[i].trace[n].step)

\* A response written write, patch, rename, delete, dependency, SQL, which
\* would run backwards if the textual order mattered, with a call made in
\* each of the six steps.
C1_Witness ==
    /\ Slot.pc = "done"
    /\ Slot.fullResponse = AllKindsReversed
    /\ EventsOf("searchReplace", "writeFileSync") # {}
    /\ EventsOf("sql", "executeSupabaseSql") # {}
    /\ EventsOf("deps", "executeAddDependency") # {}
    /\ EventsOf("delete", "unlink") # {}
    /\ EventsOf("rename", "renameSync") # {}
    /\ EventsOf("write", "writeFileSync") # {}

\* The invocation got past the fatal checks and ran its steps to a result.
Processed == Slot.pc = "done" /\ Slot.result.kind \in {"summary", "error"}

\* A delete of old.ts, a rename of b.ts to old.ts and a write of old.ts, in
\* any textual order.
DeleteRenameWrite ==
    /\ Len(Slot.fullResponse) = 3
    /\ \A tag \in {DeleteOld, RenameBToOld, WriteOld} : HasTag(Slot.fullResponse, tag)

WrittenAndMoved ==
    /\ Dir[OldTs] = File(NewContent)
    /\ ~Exists(Dir, BTs)

\* C2 as stated: every invocation that processed a response with the three
\* tags, and in which old.ts was removed and b.ts moved, ends with old.ts
\* holding the write tag's content and b.ts absent.
C2_Original ==
    (/\ Slot.pc = "done"
     /\ DeleteRenameWrite
     /\ EventsOf("delete", "unlink") \ FailedEvents("delete", "unlink") # {}
     /\ EventsOf("rename", "renameSync") \ FailedEvents("rename", "renameSync") # {})
      => WrittenAndMoved

\* The response was processed up to the rename: old.ts was removed, b.ts was
\* moved to old.ts, the staging that follows the rename threw, and the
\* invocation ended there: old.ts holds what b.ts held, the write tag was
\* never executed, and nothing was rolled back.
C2_HalfApplied ==
    /\ Slot.pc = "done"
    /\ DeleteRenameWrite
    /\ Slot.result = ErrorResult
    /\ FailedEvents("rename", "gitAdd") # {}
    /\ EventsOf("write", "writeFileSync") = {}
    /\ Dir[OldTs] = File(BContent)
    /\ ~Exists(Dir, BTs)

\* What the claim counts as a change: a file written, renamed or deleted, or
\* a dependency asked for.
Changed ==
    \/ Slot.writtenFiles # <<>>
    \/ Slot.renamedFiles # <<>>
    \/ Slot.deletedFiles # <<>>
    \/ \E k \in DOMAIN Slot.fullResponse :
           Slot.fullResponse[k].kind = "dyad-add-dependency"

Committed ==
    /\ Repo.log # <<>>
    /\ Row.commitHash # 0
    /\ Row.commitHash = Repo.log[Len(Repo.log)].hash

\* C3 as stated: at the end of an invocation that ran its steps, with every
\* lookup and every read answered, a commit exists and its id is stored on
\* the message exactly when there was a change.
C3_Original == (Processed /\ Unrecorded = 0) => (Committed <=> Changed)

\* A file was written and the staging of it threw: the invocation ended
\* with the project changed, no commit made, no id stored and nothing rolled
\* back.
C3_ChangedUncommitted ==
    /\ Slot.pc = "done"
    /\ Slot.fullResponse = <<WriteOld>>
    /\ Slot.result = ErrorResult
    /\ FailedEvents("commit", "gitAdd") # {}
    /\ Dir[OldTs] = File(NewContent)
    /\ Dir # InitialTree
    /\ EventsOf("commit", "gitCommit") = {}
    /\ Repo.log = <<>>
    /\ Row.commitHash = 0

\* ------------------------------------------------------------ fatal exits
SnapshotFailure == FailedEvents("prestep", "storeDbTimestampAtCurrentVersion") # {}
\* The lookup returned (Unrecorded = 0) and found nothing.
NoProject == ~Slot.app.found /\ Unrecorded = 0
NoMessage ==
    Slot.app.found /\ ~SnapshotFailure /\ Row.row # "assistant" /\ Unrecorded = 0

\* Nothing of the project, the repository or the approval was touched.
Untouched ==
    /\ Dir = InitialTree
    /\ Repo.log = <<>>
    /\ Repo.index = {}
    /\ Row.approvalState # "approved"
    /\ Row.commitHash = 0
    /\ \A step \in MutationSteps \cup {"commit", "approve"} : StepEvents(step) = {}

\* C4: when the app has a database branch and storing the snapshot fails, the
\* invocation raises (its promise rejects) and everything else is skipped: no
\* SQL, no install, no file deleted, renamed, patched or written, no commit,
\* and the message is not approved.
C4_SnapshotFailureAborts ==
    SnapshotFailure
    => /\ Slot.app.neon
       /\ Slot.pc = "done"
       /\ Slot.result = Rejected
       /\ Untouched

C4_Witness ==
    /\ SnapshotFailure
    /\ Slot.pc = "done"
    /\ Slot.fullResponse = <<SqlCreate, AddLeftRight, WriteOld>>

\* C5 as stated: in each of the three fatal conditions the caller gets an
\* error (returned or raised) and the annotations are flushed into the
\* content of the message, where there is such a row.
C5_Original ==
    (Slot.pc = "done" /\ (NoProject \/ NoMessage \/ SnapshotFailure))
    => /\ Slot.result.kind \in {"error", "thrown"}
       /\ Row.row # "none" => Row.content.appended

\* C5, amended: of the three fatal conditions only the snapshot failure
\* surfaces an error, and it is raised, not returned; a missing project or a
\* missing message returns the empty object, with neither error nor summary.
\* In all three nothing is executed and the message is not approved. The
\* (empty) annotation block is written to the content of the row with the
\* message's id only when the message is missing, the one exit taken inside
\* the try block; the other two leave the content as it was. When that
\* write fails, the invocation rejects and the content is left as it was.
C5_FatalConditions ==
    Slot.pc = "done"
    => /\ NoProject
            => Slot.result = EmptyResult /\ Row.content = OriginalContent
                 /\ Slot.trace = <<>>
       /\ SnapshotFailure
            => Slot.result = Rejected /\ Row.content = OriginalContent
       /\ NoMessage
            => /\ StepEvents("finally") # {}
               /\ ~FinalUpdateFailed
                    => /\ Slot.result = EmptyResult
                       /\ Row.row = "other"
                            => Row.content = Content(FALSE, TRUE, <<>>, <<>>)
               /\ FinalUpdateFailed
                    => Slot.result = Rejected /\ Row.content = OriginalContent
       /\ (NoProject \/ SnapshotFailure \/ NoMessage) => Untouched

\* A row with the message's id but another role: no message is found, the
\* empty object is returned and the row's content is still rewritten.
C5_Witness ==
    /\ Slot.pc = "done"
    /\ NoMessage
    /\ Row.row = "other"
    /\ Row.content.appended
    /\ Slot.result = EmptyResult
    /\ Slot.fullResponse = <<WriteOld>>

\* ---------------------------------------------------- throws and recovery
\* The calls that no per-action catch wraps, and the failed ones among them.
UnwrappedCalls ==
    {<<"delete", "unlink">>, <<"rename", "renameSync">>,
     <<"rename", "gitAdd">>, <<"write", "writeFileSync">>, <<"commit", "gitAdd">>,
     <<"commit", "gitCommit">>, <<"commit", "getGitUncommittedFiles">>,
     <<"commit", "gitAddAll">>, <<"commit", "updateCommitHash">>}
Unwrapped ==
    {k \in DOMAIN Slot.trace :
        ~Slot.trace[k].ok /\ <<Slot.trace[k].step, Slot.trace[k].op>> \in UnwrappedCalls}

\* The calls whose catch records one error, and the failed ones among them.
RecoveredCalls ==
    {<<"sql", "executeSupabaseSql">>, <<"sql", "writeMigrationFile">>,
     <<"deps", "executeAddDependency">>, <<"delete", "deleteSupabaseFunction">>,
     <<"rename", "deploySupabaseFunctions">>, <<"searchReplace", "writeFileSync">>,
     <<"searchReplace", "deploySupabaseFunctions">>,
     <<"write", "deploySupabaseFunctions">>}
Recovered ==
    {k \in DOMAIN Slot.trace :
        ~Slot.trace[k].ok /\ <<Slot.trace[k].step, Slot.trace[k].op>> \in RecoveredCalls}

\* The stored content is the response text followed by one annotation per
\* warning and error collected: one per failed call of the trace, when no
\* call failed that leaves no event.
Annotated ==
    /\ Row.content = Content(FALSE, TRUE, Slot.warnings, Slot.errors)
    /\ Unrecorded = 0 => Len(Row.content.errors) = Cardinality(Recovered)
    /\ Len(Row.content.warnings)
         = Cardinality(FailedEvents("rename", "deleteSupabaseFunction"))

\* C6: when a call that no per-action catch wraps throws (a removal, a move,
\* gitAdd after a rename, a file write, staging, the primary commit, listing
\* or staging the extra files, saving the commit hash), nothing is called
\* after it but the final content update; and whenever the catch block at
\* the top level is reached, also by a throw of mkdirSync, the invocation
\* returns a top-level error and no summary, the message is not approved,
\* and the content ends, the final update not failing itself, as the
\* response text followed by the annotations of every warning and error
\* collected before the throw.
C6_UncaughtThrowAborts ==
    /\ \A k \in Unwrapped :
          /\ \A n \in DOMAIN Slot.trace :
                n > k => Slot.trace[n].op = "updateContent"
          /\ Slot.pc \in {"finally", "done"}
          /\ Slot.pc = "finally" \/ ~FinalUpdateFailed => Slot.result = ErrorResult
    /\ Slot.result = ErrorResult
          => /\ Slot.pc \in {"finally", "done"}
             /\ Row.approvalState # "approved"
             /\ Slot.pc = "done" /\ Row.row # "none" => Annotated

\* A failed query was recorded, then the primary commit threw.
C6_Witness ==
    /\ Slot.pc = "done"
    /\ FailedEvents("commit", "gitCommit") # {}
    /\ FailedEvents("sql", "executeSupabaseSql") # {}
    /\ Len(Row.content.errors) = 1

\* No top-level error: no call failed outside a per-action catch, and the
\* invocation neither returned an error nor rejected.
RanToTheEnd ==
    /\ Slot.pc = "done"
    /\ Slot.app.found
    /\ Row.row = "assistant"
    /\ ~SnapshotFailure
    /\ Unwrapped = {}
    /\ FailedEvents("approve", "updateApprovalState") = {}
    /\ Slot.result.kind \notin {"error", "thrown"}

\* C7: an invocation that finds its project and message and runs all steps
\* with no top-level error returns a summary and leaves the message approved,
\* with or without changes; the approval is set after the commit id, if any,
\* was saved; recoverable failures (SQL, install, deploy, teardown, amend) do
\* not prevent it; and the collected warnings and errors are appended to the
\* stored response text.
C7_ApprovedAtTheEnd ==
    RanToTheEnd
    => /\ Slot.result.kind = "summary"
       /\ Row.approvalState = "approved"
       /\ \A h \in EventsOf("commit", "updateCommitHash"),
             a \in EventsOf("approve", "updateApprovalState") : h < a
       /\ Changed => EventsOf("commit", "updateCommitHash") # {}
       /\ Annotated

\* Approved with changes, after a failed install and a failed amend.
C7_Witness ==
    /\ RanToTheEnd
    /\ Row.approvalState = "approved"
    /\ FailedEvents("deps", "executeAddDependency") # {}
    /\ FailedEvents("commit", "gitCommitAmend") # {}
    /\ Row.commitHash # 0
    /\ Len(Row.content.errors) = 1

\* ------------------------------------------------------------------- SQL
SqlTags == {k \in DOMAIN Slot.fullResponse : Slot.fullResponse[k].kind = "dyad-execute-sql"}
WriteTags == {k \in DOMAIN Slot.fullResponse : Slot.fullResponse[k].kind = "dyad-write"}
SqlCalls == SelectSeq(Slot.trace, LAMBDA e : e.step = "sql" /\ e.op = "executeSupabaseSql")

\* The errors recorded with a message for statement k.
ErrorsFor(message, k) ==
    {j \in DOMAIN Slot.errors : Slot.errors[j] = Output(message, ToString(k))}
FailedFor(op, k) ==
    {n \in FailedEvents("sql", op) : Slot.trace[n].ref = ToString(k)}

PastSql ==
    \/ Slot.pc \in {"deps", "delete", "rename", "searchReplace", "write",
                     "commit", "extra", "saveHash", "approve"}
    \/ /\ Slot.pc \in {"finally", "done"}
       /\ Slot.result.kind \in {"summary", "error"}
       /\ Unrecorded = 0

AllFailuresAreSql ==
    \A n \in DOMAIN Slot.trace : ~Slot.trace[n].ok => Slot.trace[n].step = "sql"

\* C8: SQL runs only for an app with a linked database project. The
\* statements are executed once each, in textual order, whether or not an
\* earlier one failed; a failed statement records exactly one error; a failed
\* migration write records one error of its own and no SQL failure; and when
\* nothing else fails the later steps run and the invocation ends with a
\* summary.
C8_SqlFailuresAreLocal ==
    /\ ~Slot.app.supabase => StepEvents("sql") = {}
    /\ \A j \in DOMAIN SqlCalls : SqlCalls[j].ref = ToString(j)
    /\ (PastSql /\ Slot.app.supabase) => Len(SqlCalls) = Cardinality(SqlTags)
    /\ \A k \in DOMAIN SqlCalls :
          /\ Cardinality(ErrorsFor("Failed to execute SQL query", k))
                = Cardinality(FailedFor("executeSupabaseSql", k))
          /\ Cardinality(ErrorsFor("Failed to write SQL migration file", k))
                = Cardinality(FailedFor("writeMigrationFile", k))
          /\ Cardinality(FailedFor("executeSupabaseSql", k)) <= 1
          /\ Cardinality(FailedFor("writeMigrationFile", k)) <= 1
          /\ FailedFor("writeMigrationFile", k) # {} => SqlCalls[k].ok
    /\ (Slot.pc = "done" /\ PastSql /\ AllFailuresAreSql /\ Unrecorded = 0)
         => /\ Slot.result.kind = "summary"
            /\ Cardinality(EventsOf("write", "writeFileSync")) = Cardinality(WriteTags)

\* The first statement fails, the second runs and its migration file cannot
\* be written, and the write that follows is carried out.
C8_Witness ==
    /\ Slot.pc = "done"
    /\ Slot.fullResponse = <<WriteOld, SqlCreate, SqlCreate>>
    /\ FailedFor("executeSupabaseSql", 1) # {}
    /\ FailedFor("writeMigrationFile", 2) # {}
    /\ Len(Slot.errors) = 2
    /\ Dir[OldTs] = File(NewContent)
    /\ Slot.result.kind = "summary"

\* ---------------------------------------------------------- dependencies
DepTags ==
    {k \in DOMAIN Slot.fullResponse : Slot.fullResponse[k].kind = "dyad-add-dependency"}
InstallCalls == SelectSeq(Slot.trace, LAMBDA e : e.op = "executeAddDependency")

\* The package list each dependency tag of the inputs spells out.
ListOf(tag) ==
    CASE tag = AddLeftRight -> <<"left", "right">>
      [] tag = AddRightExtra -> <<"right", "extra">>
      [] OTHER -> <<>>

RECURSIVE Concatenated(_)
Concatenated(response) ==
    IF response = <<>> THEN <<>>
    ELSE ListOf(Head(response)) \o Concatenated(Tail(response))

PastDeps ==
    \/ Slot.pc \in {"delete", "rename", "searchReplace", "write",
                     "commit", "extra", "saveHash", "approve"}
    \/ /\ Slot.pc \in {"finally", "done"}
       /\ Slot.result.kind \in {"summary", "error"}
       /\ Unrecorded = 0

\* C9: an invocation never runs the install (executeAddDependency, one
\* package-manager command for all the packages) more than once; for a
\* response with one or more add-dependency tags it has called it exactly
\* once when the dependency step is over, given the tags' package lists
\* concatenated in the order of the tags, each list in its own order and
\* duplicates kept; with no add-dependency tag it does not call it.
C9_OneInstall ==
    /\ Len(InstallCalls) <= 1
    /\ DepTags = {} => InstallCalls = <<>>
    /\ (PastDeps /\ DepTags # {}) => Len(InstallCalls) = 1
    /\ \A j \in DOMAIN InstallCalls :
          InstallCalls[j].args = Concatenated(Slot.fullResponse)

\* Tags 'left right' and 'right extra', a write between them: one install of
\* left, right, right, extra.
C9_Witness ==
    /\ Slot.pc = "done"
    /\ Slot.fullResponse = <<AddLeftRight, WriteOld, AddRightExtra>>
    /\ Len(InstallCalls) = 1
    /\ InstallCalls[1].args = <<"left", "right", "right", "extra">>

\* The package files among the paths recorded as written.
Recorded ==
    SelectSeq(Slot.writtenFiles, LAMBDA p : p \in {PackageJson, PnpmLock, PackageLock})

InstallErrors ==
    {j \in DOMAIN Slot.errors : Slot.errors[j].message = "Failed to add dependencies"}

AllFailuresAreInstalls ==
    \A n \in DOMAIN Slot.trace : ~Slot.trace[n].ok => Slot.trace[n].step = "deps"

\* C10: once the install was attempted and the step has resumed, the
\* dependency step has recorded as written the manifest and each lock file
\* that exists after the attempt, the same whether the install succeeded or
\* failed; a failed install records one error besides, and the later steps
\* still run; without an install nothing of this is recorded.
C10_PackageFilesRecorded ==
    /\ InstallCalls = <<>> => Recorded = <<>> /\ InstallErrors = {}
    /\ InstallCalls # <<>> /\ Slot.pc = "deps" => Recorded = <<>>
    /\ InstallCalls # <<>>
         => Cardinality(InstallErrors) = (IF InstallCalls[1].ok THEN 0 ELSE 1)
    /\ InstallCalls # <<>> /\ Slot.pc # "deps"
         => /\ Recorded
                 = <<PackageJson>>
                     \o (IF Exists(Dir, PnpmLock) THEN <<PnpmLock>> ELSE <<>>)
                     \o (IF Exists(Dir, PackageLock) THEN <<PackageLock>> ELSE <<>>)
            /\ Cardinality(InstallErrors) = (IF InstallCalls[1].ok THEN 0 ELSE 1)
    /\ (Slot.pc = "done" /\ PastDeps /\ AllFailuresAreInstalls)
         => /\ Slot.result.kind = "summary"
            /\ Cardinality(EventsOf("write", "writeFileSync")) = Cardinality(WriteTags)

\* The install failed: the manifest and the one lock file there is are
\* recorded, one error is kept and the write after it is carried out.
C10_Witness ==
    /\ Slot.pc = "done"
    /\ Slot.fullResponse = <<WriteOld, AddLeftRight>>
    /\ FailedEvents("deps", "executeAddDependency") # {}
    /\ Recorded = <<PackageJson, PnpmLock>>
    /\ Cardinality(InstallErrors) = 1
    /\ Dir[OldTs] = File(NewContent)
    /\ Slot.result.kind = "summary"

\* ------------------------------------------------------------------ C11
\* What the invocation of slot 1 is about to do in the delete step.
DeletePath == getDyadDeleteTags(Slot.fullResponse)[Slot.idx]
NextSlot == inv'[1]
NextDir == fs'[Slot.app.dir]
\* An iteration of a loop takes one step for each call it awaits. Before,
\* BeforeDir and BeforeRepo are the locals, the tree and the repository the
\* running iteration started from; Ends(step) holds of the step of the
\* invocation that ends an iteration of the loop.
Before == IF Slot.awaiting = "" THEN Slot ELSE Slot.before[1].slot
BeforeDir == IF Slot.awaiting = "" THEN Dir ELSE Slot.before[1].tree
BeforeRepo == IF Slot.awaiting = "" THEN Repo ELSE Slot.before[1].repo
Ends(step) == Slot.pc = step /\ NextSlot # Slot /\ NextSlot.awaiting = ""
\* The calls of the iteration, up to the step taken.
NewEvents == SubSeq(NextSlot.trace, Len(Before.trace) + 1, Len(NextSlot.trace))
NewOps == {NewEvents[k].op : k \in DOMAIN NewEvents}
FailedNow(op) == \E k \in DOMAIN NewEvents : NewEvents[k].op = op /\ ~NewEvents[k].ok
\* The calls of the iteration that failed and leave no event: a read, or the
\* making of the parent directories, which throws before any other call.
UnrecordedNow ==
    (NextSlot.faults - Before.faults)
      - Cardinality({k \in DOMAIN NewEvents : ~NewEvents[k].ok})
MkdirThrew == NewEvents = <<>> /\ NextSlot.result = ErrorResult
DeleteContinues ==
    NextSlot.pc = (IF Slot.idx < Len(getDyadDeleteTags(Slot.fullResponse))
                   THEN "delete"
                   ELSE FirstPhaseFrom(Slot, PhaseIndex("delete") + 1))

\* C11: a delete tag whose path does not exist changes no file, is not
\* counted as deleted, and the next tag or step follows; a delete tag whose
\* path exists removes the path with everything below it and counts it once,
\* unless the removal itself throws, which leaves the path, counts nothing
\* and ends the invocation.
C11_DeleteOfMissingPath ==
    [][Ends("delete")
         => /\ ~Exists(BeforeDir, DeletePath)
                 => /\ NextDir = BeforeDir
                    /\ NextSlot.deletedFiles = Before.deletedFiles
                    /\ "unlink" \notin NewOps
                    /\ NextSlot.result = Pending
                    /\ DeleteContinues
            /\ Exists(BeforeDir, DeletePath) /\ ~FailedNow("unlink")
                 => /\ \A q \in Subtree(DeletePath) : ~Exists(NextDir, q)
                    /\ \A q \in Paths \ Subtree(DeletePath) : NextDir[q] = BeforeDir[q]
                    /\ NextSlot.deletedFiles = Append(Before.deletedFiles, DeletePath)
            /\ FailedNow("unlink")
                 => /\ Exists(BeforeDir, DeletePath)
                    /\ NextDir = BeforeDir
                    /\ NextSlot.deletedFiles = Before.deletedFiles
                    /\ NextSlot.result = ErrorResult]_vars

\* A missing path and a directory with a file in it were deleted: the
\* directory and the file are gone, the directory alone is counted, and the
\* invocation returned its summary.
C11_Witness ==
    /\ Slot.pc = "done"
    /\ Slot.fullResponse = <<DeleteMissing, DeleteHello>>
    /\ Slot.deletedFiles = <<HelloDir>>
    /\ ~Exists(Dir, HelloDir) /\ ~Exists(Dir, HelloIndex)
    /\ Exists(Dir, FunctionsDir)
    /\ Slot.result.kind = "summary"

\* ------------------------------------------------------------------ C12
TeardownCalls == {k \in DOMAIN NewEvents : NewEvents[k].op = "deleteSupabaseFunction"}
TeardownError == Output("Failed to delete Supabase function", DeletePath)

\* C12 as stated: every teardown requested by the delete step comes after a
\* local delete of the same action (the unlink, then its git removal).
C12_Original ==
    \A k \in EventsOf("delete", "deleteSupabaseFunction") :
        /\ k > 2
        /\ Slot.trace[k - 2].step = "delete"
        /\ Slot.trace[k - 2].op = "unlink"
        /\ Slot.trace[k - 2].ok

\* C12: a delete tag on the path of a unit requests the teardown once, as the
\* last call of the action, whether or not the path existed locally; when it
\* existed the local delete comes first, and a local delete that throws is
\* followed by no teardown. A failed teardown records one error
\* for the action, the path stays deleted and counted, and the next tag or
\* step follows; a successful one, or a path outside the units, records none.
C12_TeardownAfterDelete ==
    [][Ends("delete")
         => /\ ~isServerFunction(DeletePath)
                 => TeardownCalls = {} /\ NextSlot.errors = Before.errors
            /\ FailedNow("unlink") => TeardownCalls = {}
            /\ isServerFunction(DeletePath) /\ ~FailedNow("unlink")
                 => /\ TeardownCalls = {Len(NewEvents)}
                    /\ Exists(BeforeDir, DeletePath)
                         => /\ NewEvents[1].op = "unlink" /\ NewEvents[1].ok
                            /\ Len(NewEvents) = 3
                    /\ ~Exists(BeforeDir, DeletePath) => Len(NewEvents) = 1
                    /\ NewEvents[Len(NewEvents)].ok => NextSlot.errors = Before.errors
                    /\ ~NewEvents[Len(NewEvents)].ok
                         => /\ NextSlot.errors = Append(Before.errors, TeardownError)
                            /\ ~Exists(NextDir, DeletePath)
                            /\ Exists(BeforeDir, DeletePath)
                                 => NextSlot.deletedFiles
                                      = Append(Before.deletedFiles, DeletePath)
                            /\ NextSlot.result = Pending
                            /\ DeleteContinues]_vars

\* The unit was deleted locally, its teardown failed, and the write of the
\* same response was carried out: one error, the unit still gone.
C12_Witness ==
    /\ Slot.pc = "done"
    /\ Slot.fullResponse = <<DeleteHello, WriteOld>>
    /\ EventsOf("delete", "unlink") # {}
    /\ FailedEvents("delete", "deleteSupabaseFunction") # {}
    /\ Slot.errors = <<Output("Failed to delete Supabase function", HelloDir)>>
    /\ Slot.deletedFiles = <<HelloDir>>
    /\ ~Exists(Dir, HelloDir) /\ ~Exists(Dir, HelloIndex)
    /\ Dir[OldTs] = File(NewContent)
    /\ Slot.result.kind = "summary"

\* ------------------------------------------------------------------ C13
RenameNow == getDyadRenameTags(Slot.fullResponse)[Slot.idx]
NextRepo == git'[Slot.app.dir]
RenameContinues ==
    NextSlot.pc = (IF Slot.idx < Len(getDyadRenameTags(Slot.fullResponse))
                   THEN "rename"
                   ELSE FirstPhaseFrom(Slot, PhaseIndex("rename") + 1))
SameFiles ==
    \A q \in Paths :
        (BeforeDir[q].kind = "file" \/ NextDir[q].kind = "file") => NextDir[q] = BeforeDir[q]

\* C13: the parent directories of the destination made, a rename tag whose
\* source does not exist moves no file, is not counted as renamed, issues no
\* git add or remove, and the next tag or step follows. A rename tag whose
\* source exists and is moved leaves the file at the destination, under
\* parent directories that exist, and the source gone; a failed remote delete
\* of the old unit records one warning, and a failed remote deploy of the new
\* unit, or a failed read of the file to deploy, which prevents the deploy,
\* one error, the file staying at the destination. A move that throws
\* leaves the file at the source, counts nothing and ends the invocation.
C13_RenameOfMissingSource ==
    [][Ends("rename") /\ ~MkdirThrew
         => /\ ~Exists(BeforeDir, RenameNow.from) /\ UnrecordedNow = 0
                 => /\ SameFiles
                    /\ NextSlot.renamedFiles = Before.renamedFiles
                    /\ NewOps \cap {"renameSync", "gitAdd", "gitRemove"} = {}
                    /\ NextRepo = BeforeRepo
                    /\ NextSlot.result = Pending
                    /\ RenameContinues
            /\ FailedNow("renameSync")
                 => /\ Exists(BeforeDir, RenameNow.from)
                    /\ NextDir[RenameNow.from] = BeforeDir[RenameNow.from]
                    /\ NextSlot.renamedFiles = Before.renamedFiles
                    /\ NextSlot.result = ErrorResult
            /\ UnrecordedNow > 0
                 => /\ "deploySupabaseFunctions" \notin NewOps
                    /\ NextSlot.errors
                         = Append(Before.errors,
                                  Output("Failed to deploy Supabase function",
                                         RenameNow.to))
            /\ Exists(BeforeDir, RenameNow.from) /\ ~FailedNow("renameSync")
                 => /\ NextDir[RenameNow.to] = BeforeDir[RenameNow.from]
                    /\ RenameNow.from # RenameNow.to => ~Exists(NextDir, RenameNow.from)
                    /\ \A a \in Ancestors(RenameNow.to) : NextDir[a] = DirEntry
                    /\ NextSlot.renamedFiles = Append(Before.renamedFiles, RenameNow.to)
                    /\ NextSlot.warnings
                         = (IF FailedNow("deleteSupabaseFunction")
                            THEN Append(Before.warnings,
                                        Output("Failed to delete Supabase function",
                                               RenameNow.from))
                            ELSE Before.warnings)
                    /\ FailedNow("deploySupabaseFunctions")
                         => NextSlot.errors
                              = Append(Before.errors,
                                       Output("Failed to deploy Supabase function",
                                              RenameNow.to))]_vars

\* A rename with a missing source was skipped and the next one moved b.ts to
\* the entry file of a unit whose deploy failed: one path renamed, the file at
\* its destination under new directories, one error, and a summary returned.
C13_Witness ==
    /\ Slot.pc = "done"
    /\ Slot.fullResponse = <<RenameMissing, RenameToUnit>>
    /\ Slot.renamedFiles = <<HelloIndex>>
    /\ FailedEvents("rename", "deploySupabaseFunctions") # {}
    /\ Cardinality(EventsOf("rename", "gitAdd")) = 1
    /\ Dir[HelloIndex] = File(BContent)
    /\ Dir[HelloDir] = DirEntry
    /\ ~Exists(Dir, BTs) /\ ~Exists(Dir, CTs)
    /\ Dir[OldTs] = File(OldContent)
    /\ Slot.errors = <<Output("Failed to deploy Supabase function", HelloIndex)>>
    /\ Slot.result.kind = "summary"

\* ------------------------------------------------------------------ C14
PatchNow == getDyadSearchReplaceTags(Slot.fullResponse)[Slot.idx]
PatchResult == applySearchReplace(BeforeDir[PatchNow.path].data, PatchNow.content)
PatchContinues ==
    NextSlot.pc = (IF Slot.idx < Len(getDyadSearchReplaceTags(Slot.fullResponse))
                   THEN "searchReplace"
                   ELSE FirstPhaseFrom(Slot, PhaseIndex("searchReplace") + 1))

\* C14: a search-replace tag whose target is missing, or whose patch the
\* engine reports as failed, changes no file, counts no written path, adds no
\* warning and no error, and the next search-replace tag or the write step
\* follows; one whose patch succeeds and is written leaves the patched content
\* in the file and counts the path as written. A target that is there and
\* cannot be read changes no file and counts nothing either, but records one
\* error.
C14_FailedPatchIsSilent ==
    [][Ends("searchReplace")
         => /\ UnrecordedNow > 0
                 => /\ Exists(BeforeDir, PatchNow.path)
                    /\ NextDir = BeforeDir
                    /\ NextSlot.writtenFiles = Before.writtenFiles
                    /\ NextSlot.errors
                         = Append(Before.errors,
                                  Output("Error applying search-replace", PatchNow.path))
                    /\ NewEvents = <<>>
                    /\ PatchContinues
            /\ (/\ UnrecordedNow = 0
                /\ \/ ~Exists(BeforeDir, PatchNow.path)
                   \/ BeforeDir[PatchNow.path].kind = "file" /\ ~PatchResult.success)
                 => /\ NextDir = BeforeDir
                    /\ NextSlot.writtenFiles = Before.writtenFiles
                    /\ NextSlot.warnings = Before.warnings
                    /\ NextSlot.errors = Before.errors
                    /\ NewEvents = <<>>
                    /\ NextSlot.result = Pending
                    /\ PatchContinues
            /\ (/\ BeforeDir[PatchNow.path].kind = "file"
                /\ PatchResult.success
                /\ UnrecordedNow = 0
                /\ ~FailedNow("writeFileSync"))
                 => /\ NextDir[PatchNow.path] = File(PatchResult.content)
                    /\ \A q \in Paths \ {PatchNow.path} : NextDir[q] = BeforeDir[q]
                    /\ NextSlot.writtenFiles = Append(Before.writtenFiles, PatchNow.path)
                    /\ PatchContinues]_vars

\* The same patch twice: the first is applied and counted, the second no
\* longer finds its search text and is dropped without a warning or an error.
C14_Witness ==
    /\ Slot.pc = "done"
    /\ Slot.fullResponse = <<PatchB, PatchB>>
    /\ Cardinality(EventsOf("searchReplace", "writeFileSync")) = 1
    /\ Slot.writtenFiles = <<BTs>>
    /\ Dir[BTs] = File(<<"let b = 2;", "export default b;">>)
    /\ ~applySearchReplace(Dir[BTs].data, PatchBody).success
    /\ Slot.warnings = <<>> /\ Slot.errors = <<>>
    /\ Slot.result.kind = "summary"

\* ------------------------------------------------------------------ C15
WriteNow == getDyadWriteTags(Slot.fullResponse)[Slot.idx]
\* The trimmed body is an identifier that was pending for the chat when the
\* invocation started.
PendingIds == {id \in Slot.fileUploadsMap : Trim(WriteNow.content) = <<id>>}
Written ==
    \E k \in DOMAIN NewEvents : NewEvents[k].op = "writeFileSync" /\ NewEvents[k].ok
ReadErrors(id) ==
    IF Len(NextSlot.errors) > Len(Before.errors)
          /\ NextSlot.errors[Len(Before.errors) + 1]
               = Output("Failed to read uploaded file", id)
    THEN 1 ELSE 0
ParentsMade == \A a \in Ancestors(WriteNow.path) : NextDir[a] = DirEntry

\* C15 as stated: a write that is carried out leaves the uploaded content in
\* the file when the trimmed body is a pending identifier, and the tag body
\* otherwise, creates the parent directories and counts the path.
C15_Original ==
    [][(Ends("write") /\ Written)
         => /\ \A id \in PendingIds : NextDir[WriteNow.path] = File(UploadData(id))
            /\ PendingIds = {} => NextDir[WriteNow.path] = File(WriteNow.content)
            /\ ParentsMade
            /\ NextSlot.writtenFiles = Append(Before.writtenFiles, WriteNow.path)]_vars

\* C15: a write tag whose trimmed body is a pending identifier leaves the
\* uploaded content in the file when the upload could be read, and the tag
\* body with one error recorded when it could not; any other write tag leaves
\* the tag body. The parent directories are created in every case and the
\* path is counted as written; a write that throws leaves the file as it was,
\* counts nothing and ends the invocation, and so does the making of the
\* parent directories when it throws, before any write.
C15_UploadSubstituted ==
    [][Ends("write")
         => /\ "writeFileSync" \in NewOps => ParentsMade
            /\ "writeFileSync" \notin NewOps => NextDir = BeforeDir
            /\ Written
                 => /\ NextSlot.writtenFiles = Append(Before.writtenFiles, WriteNow.path)
                    /\ \A id \in PendingIds :
                         \/ /\ NextDir[WriteNow.path] = File(UploadData(id))
                            /\ ReadErrors(id) = 0
                         \/ /\ NextDir[WriteNow.path] = File(WriteNow.content)
                            /\ ReadErrors(id) = 1
                    /\ PendingIds = {}
                         => /\ NextDir[WriteNow.path] = File(WriteNow.content)
                            /\ \A id \in {FirstUploadId, LaterUploadId} : ReadErrors(id) = 0
            /\ ~Written
                 => /\ NextDir[WriteNow.path] = BeforeDir[WriteNow.path]
                    /\ NextSlot.writtenFiles = Before.writtenFiles
                    /\ NextSlot.result = ErrorResult]_vars

\* The body of the first write named the pending upload and the second was
\* text: the uploaded content lies under directories made for it, the text in
\* old.ts, both paths are counted, and nothing was recorded as an error.
C15_Witness ==
    /\ Slot.pc = "done"
    /\ Slot.fullResponse = <<WriteUnitUpload, WriteOld>>
    /\ Slot.fileUploadsMap = {FirstUploadId}
    /\ Dir[HelloIndex] = File(UploadData(FirstUploadId))
    /\ Dir[HelloDir] = DirEntry /\ Dir[FunctionsDir] = DirEntry
    /\ Dir[OldTs] = File(NewContent)
    /\ Slot.writtenFiles = <<HelloIndex, OldTs>>
    /\ Slot.errors = <<>>
    /\ Slot.result.kind = "summary"

\* ------------------------------------------------------------------ C16
OtherChats == Invocations \ {chatId(1)}
Running == Slot.pc \notin {"start", "done", "idle"}

\* C16: the call of an invocation empties the registry of its chat before
\* its first await and leaves the registries of the other chats as they are,
\* and no later step of the invocation touches a registry, so that on every
\* exit, the fatal ones included, the upload that was pending at the start
\* is pending no more; a registry changes during an invocation only by a
\* registration made while the invocation is suspended. In the second turn of
\* the chat a write whose body names that upload, which was not registered
\* again, writes the tag body.
C16_RegistryCleared ==
    /\ [](Slot.pc # "start" => FirstUploadId \notin uploads[chatId(1)])
    /\ [][/\ (Slot.pc = "start" /\ NextSlot # Slot)
               => /\ uploads'[chatId(1)] = {}
                  /\ \A c \in OtherChats : uploads'[c] = uploads[c] /\ uploads[c] # {}
                  /\ NextSlot.fileUploadsMap = uploads[chatId(1)]
                  /\ NextSlot.result = Pending
          /\ (Running /\ NextSlot # Slot) => uploads' = uploads
          /\ (Running /\ uploads' # uploads)
               => /\ NextSlot = Slot
                  /\ uploads' = [uploads EXCEPT ![chatId(1)] = @ \cup {LaterUploadId}]
          /\ (/\ Slot.pc = "write"
              /\ Slot.fullResponse \in TurnTwo
              /\ Trim(WriteNow.content) = <<FirstUploadId>>
              /\ Written)
               => NextDir[WriteNow.path] = File(WriteNow.content)]_vars

\* The second turn of the chat has ended: the write that named the upload of
\* the first turn left the identifier in c.ts, the write that named the upload
\* registered between the turns left that upload's content in b.ts, and the
\* upload pending in the other chat is still pending.
C16_Witness ==
    /\ Slot.pc = "done"
    /\ Slot.fullResponse = <<WriteUpload, WriteLater>>
    /\ Slot.fileUploadsMap = {LaterUploadId}
    /\ Dir[CTs] = File(<<FirstUploadId>>)
    /\ Dir[BTs] = File(UploadData(LaterUploadId))
    /\ uploads[chatId(1)] = {}
    /\ \A c \in OtherChats : uploads[c] = {FirstUploadId}
    /\ Slot.result.kind = "summary"

\* ------------------------------------------------------------------ C17
Ok(step, op) == EventsOf(step, op) \ FailedEvents(step, op)
PrimaryCommitted == Ok("commit", "gitCommit") # {}
Listed == Ok("commit", "getGitUncommittedFiles") # {}
LeftUncommitted == PrimaryCommitted /\ Listed /\ Slot.uncommittedFiles # {}
NothingUncommitted == PrimaryCommitted /\ Listed /\ Slot.uncommittedFiles = {}
Amended == Ok("commit", "gitCommitAmend") # {}
AmendHasFailed == FailedEvents("commit", "gitCommitAmend") # {}
LastCommit == Repo.log[Len(Repo.log)]
Note == " + extra files edited outside of Dyad"
PersistedAmended ==
    /\ LastCommit.message = CommitMessage(Slot) \o Note
    /\ Slot.uncommittedFiles \subseteq LastCommit.files
    /\ Row.commitHash = LastCommit.hash
PersistedPrimary ==
    /\ LastCommit.message = CommitMessage(Slot)
    /\ Row.commitHash = LastCommit.hash
AdvisorySummary ==
    /\ Slot.result = Result("summary", TRUE, Slot.uncommittedFiles, "Error: amend failed")
    /\ Row.approvalState = "approved"
NoAmend ==
    /\ EventsOf("commit", "gitAddAll") = {}
    /\ EventsOf("commit", "gitCommitAmend") = {}
    /\ Slot.result.extraFiles = {}

DatabaseUpdatesDone ==
    /\ FailedEvents("commit", "updateCommitHash") = {}
    /\ FailedEvents("approve", "updateApprovalState") = {}
    /\ ~FinalUpdateFailed

\* C17 as stated, for the invocations whose database updates all succeed:
\* whenever files are left uncommitted after the primary commit they are
\* staged, the commit is amended or the amend fails, and the invocation ends
\* with the commit id persisted: the amended one, or the primary one next to
\* an approved message and a summary with the list and the error.
C17_Original ==
    (Slot.pc = "done" /\ DatabaseUpdatesDone)
      => /\ LeftUncommitted
              => /\ Ok("commit", "gitAddAll") # {}
                 /\ Amended \/ AmendHasFailed
         /\ Amended => PersistedAmended
         /\ AmendHasFailed => AdvisorySummary /\ PersistedPrimary
         /\ NothingUncommitted => NoAmend

\* The primary commit succeeded, a file edited by the user was left, and the
\* staging of it threw: the invocation ended with an error, no amend was
\* tried, no commit id was saved and the message was not approved.
C17_StagingAborts ==
    /\ Slot.pc = "done"
    /\ Slot.fullResponse = <<WriteOld>>
    /\ LeftUncommitted
    /\ FailedEvents("commit", "gitAddAll") # {}
    /\ ~Amended /\ ~AmendHasFailed
    /\ Slot.result = ErrorResult
    /\ Len(Repo.log) = 1
    /\ Row.commitHash = 0
    /\ Row.approvalState # "approved"

\* ------------------------------------------------------------------ C18
CommitCalls == EventsOf("commit", "gitCommit")
OneOfEach ==
    /\ Len(Slot.deletedFiles) = 1 /\ Len(Slot.renamedFiles) = 1
    /\ Len(Slot.writtenFiles) = 1
    /\ getDyadAddDependencyTags(Slot.fullResponse) = <<>>
    /\ dyadExecuteSqlQueries(Slot) = <<>>
\* The gitAdd calls of the written paths, in order, end right before call k.
StagedBefore(k) ==
    /\ k > Len(Slot.writtenFiles)
    /\ \A j \in DOMAIN Slot.writtenFiles :
         Slot.trace[k - Len(Slot.writtenFiles) + j - 1]
           = Event("commit", "gitAdd", Slot.writtenFiles[j], TRUE)
Counted(verb, files) ==
    IF Len(files) > 0
    THEN <<verb \o " " \o ToString(Len(files)) \o " file(s)">> ELSE <<>>
AddedPart ==
    IF getDyadAddDependencyTags(Slot.fullResponse) # <<>>
    THEN <<"added " \o JoinWith(getDyadAddDependencyTags(Slot.fullResponse), ", ")
             \o " package(s)">>
    ELSE <<>>
ExecutedPart ==
    IF dyadExecuteSqlQueries(Slot) # <<>>
    THEN <<"executed " \o ToString(Len(dyadExecuteSqlQueries(Slot))) \o " SQL queries">>
    ELSE <<>>
OneCommitAfterStaging ==
    /\ Cardinality(CommitCalls) <= 1
    /\ \A k \in CommitCalls : Slot.hasChanges /\ StagedBefore(k)
    /\ (Slot.result.kind = "summary" /\ Slot.hasChanges)
         => Cardinality(Ok("commit", "gitCommit")) = 1

\* C18 as stated: one commit after the staging of the written paths, and for
\* one delete, one rename and one write the summary reads deleted, renamed,
\* wrote.
C18_Original ==
    /\ OneCommitAfterStaging
    /\ \A k \in CommitCalls :
         OneOfEach
           => Slot.trace[k].ref
                = Marker \o "deleted 1 file(s), renamed 1 file(s), wrote 1 file(s)"

\* C18: an invocation makes at most one primary commit, only when there are
\* changes and right after staging every written path, and exactly one when
\* it returns a summary with changes; the message is the product marker,
\* then the chat summary and a dash when a summary was passed, then the
\* counts of the kinds that occurred in the order wrote, renamed, deleted,
\* then the packages added and the statements executed: for one delete, one
\* rename and one write the counts read wrote, renamed, deleted.
C18_CommitSummary ==
    /\ OneCommitAfterStaging
    /\ \A k \in CommitCalls :
         /\ Slot.trace[k].ref
              = Marker \o JoinWith(Counted("wrote", Slot.writtenFiles)
                                    \o Counted("renamed", Slot.renamedFiles)
                                    \o Counted("deleted", Slot.deletedFiles)
                                    \o AddedPart \o ExecutedPart, ", ")
         /\ (OneOfEach /\ Slot.chatSummary = "")
              => Slot.trace[k].ref
                   = "[dyad] wrote 1 file(s), renamed 1 file(s), deleted 1 file(s)"
         /\ (OneOfEach /\ Slot.chatSummary = "Add a greeting")
              => Slot.trace[k].ref
                   = "[dyad] Add a greeting - wrote 1 file(s), renamed 1 file(s), deleted 1 file(s)"

\* One delete, one rename and one write were carried out and committed once,
\* after the staging of the written path, for a caller that passed a chat
\* summary.
C18_Witness ==
    /\ Slot.pc = "done"
    /\ Slot.fullResponse = <<WriteOld, RenameBToOld, DeleteOld>>
    /\ Slot.chatSummary = "Add a greeting"
    /\ OneOfEach
    /\ \E k \in CommitCalls :
         /\ Slot.trace[k - 1] = Event("commit", "gitAdd", OldTs, TRUE)
         /\ Slot.trace[k].ok
         /\ Slot.trace[k].ref
              = "[dyad] Add a greeting - wrote 1 file(s), renamed 1 file(s), deleted 1 file(s)"
    /\ Len(Repo.log) = 1
    /\ {OldTs, BTs} \subseteq Repo.log[1].files
    /\ Slot.result.kind = "summary"
    /\ Slot.result.updatedFiles

\* ------------------------------------------------------------------ C19
Other == inv[2]
\* The commit recorded for the invocation of slot 1: the entry of the log of
\* its repository whose id is the one the invocation holds.
OwnCommits == {k \in DOMAIN Repo.log : Repo.log[k].hash = Slot.commitHash}

\* C19: the invocation that writes old.ts, interleaved with an invocation of
\* another chat that writes c.ts, returns what it returns alone: a summary
\* with changes, no out-of-band files and no error, for a commit that holds
\* old.ts alone under the message of one written file.
C19_Original ==
    (/\ Slot.pc = "done"
     /\ Slot.fullResponse = <<WriteOld>>
     /\ Other.fullResponse = <<WriteC>>
     /\ Slot.result.kind = "summary")
      => /\ Slot.result = Result("summary", TRUE, {}, "")
         /\ Slot.uncommittedFiles = {}
         /\ \A k \in OwnCommits :
              /\ Repo.log[k].files = {OldTs}
              /\ Repo.log[k].message = Marker \o "wrote 1 file(s)"

\* The same statement for two invocations whose apps have different
\* directories.
C19_ApartHolds == Other.app.dir # Slot.app.dir => C19_Original

\* ------------------------------------------------------------------ C20
Settled == tsc.promise.state \in {"resolved", "rejected"}

\* C20 as stated: the promise returned by generateProblemReport eventually
\* settles, also when the worker hangs or exits with code 0 without having
\* posted a message.
C20_Original == <>Settled

\* A promise that stays pending: the worker is gone, or will never act, and
\* nothing is left that could settle the promise.
C20_PendingForever ==
    /\ tsc.promise.state = "pending"
    /\ tsc.worker \in {"hung", "exited"}
    /\ ~ENABLED NextReport

\* ------------------------------------------------------------------ C21
SettlingCalls ==
    {k \in DOMAIN tsc.calls : tsc.calls[k].op \in {"resolve", "reject"}}

\* C21: the handler of a message and the handler of an error terminate the
\* worker right before they resolve or reject, the handler of an exit rejects
\* for a worker that is gone, and whenever the promise is settled the worker
\* has been terminated or has exited.
C21_TerminatedBeforeSettled ==
    /\ Settled => tsc.worker \in {"terminating", "exited"}
    /\ Settled => tsc.calls # <<>>
    /\ \A k \in SettlingCalls :
         IF tsc.calls[k].on = "exit"
         THEN tsc.worker = "exited" /\ k = Len(tsc.calls)
         ELSE k > 1 /\ tsc.calls[k - 1] = Call(tsc.calls[k].on, "terminate")

\* The worker posted a report: it was terminated, the promise resolved with
\* the report, and the exit that followed the termination changed nothing.
C21_Witness ==
    /\ tsc.calls = <<Call("message", "terminate"), Call("message", "resolve"),
                     Call("exit", "reject")>>
    /\ tsc.promise = Promise("resolved", "report")
    /\ tsc.worker = "exited"

\* ------------------------------------------------------------------ C22
LogicalErrors ==
    {output.error : output \in WorkerOutputs} \cup {"Unknown worker error"}

MessagesBefore(k) ==
    {j \in 1..(k - 1) : tsc.events[j].type = "message"}

\* What the first event received from the worker makes of the promise.
FirstEventSettles ==
    tsc.events # <<>> =>
      LET first == tsc.events[1]
      IN /\ (first.type = "exit" /\ first.code # 0) =>
              /\ tsc.promise = Promise("rejected", ExitError(first.code))
              /\ tsc.promise.value \notin LogicalErrors
         /\ (first.type = "message" /\ first.output.success
                                    /\ first.output.data # "") =>
              tsc.promise = Promise("resolved", first.output.data)
         /\ (first.type = "message" /\ ~(first.output.success
                                         /\ first.output.data # "")) =>
              /\ tsc.promise.state = "rejected"
              /\ tsc.promise.value =
                   (IF first.output.error # "" THEN first.output.error
                    ELSE "Unknown worker error")
              /\ tsc.promise.value \in LogicalErrors

\* C22 as stated: every exit with a non-zero code that no message precedes
\* rejects the promise with the exited-with-code failure.
C22_Original ==
    \A k \in DOMAIN tsc.events :
      (tsc.events[k].type = "exit" /\ tsc.events[k].code # 0
         /\ MessagesBefore(k) = {}) =>
        tsc.promise = Promise("rejected", ExitError(tsc.events[k].code))

\* C22: an exit with a non-zero code that is the first event received from
\* the worker rejects the promise with the exited-with-code failure, which is
\* none of the logical errors; a first message with success false rejects with
\* the worker's error text or with the unknown-error text; a first message with
\* success true and data resolves with the data; an exit that follows an error
\* event leaves the promise rejected with that error.
C22_ExitIsDistinctFailure ==
    /\ FirstEventSettles
    /\ (Len(tsc.events) > 1 /\ tsc.events[1].type = "error") =>
         tsc.promise = Promise("rejected", "worker error")

\* The worker exited with code 1 without having posted anything.
C22_Witness ==
    /\ tsc.events = <<Received("exit", NoOutput, 1)>>
    /\ tsc.promise = Promise("rejected", "Worker exited with code 1")
    /\ tsc.calls = <<Call("exit", "reject")>>

\* ------------------------------------------------------------------ C23
\* The virtual changes of the input posted to the worker.
Posted == tsc.input.virtualChanges

\* C23: for every response and every outcome of the worker the project trees,
\* the repositories, the message rows and the upload registries stay as they
\* were when generateProblemReport was called, and the input posted to the
\* worker is the project path, the cache directory and the delete, rename and
\* write tags of the response, nothing else.
C23_ReportLeavesProjectAlone ==
    /\ fs = [d \in Dirs |-> InitialTree]
    /\ git = [d \in Dirs |-> CleanRepo]
    /\ msgs = [m \in Invocations |-> Message("none")]
    /\ uploads = [c \in Invocations |-> {}]
    /\ inv = [i \in Invocations |-> Idle]
    /\ tsc.worker # "none" =>
         /\ DOMAIN tsc.input = {"virtualChanges", "appPath", "tsBuildInfoCacheDir"}
         /\ DOMAIN Posted = {"deletePaths", "renameTags", "writeTags"}
         /\ tsc.input.appPath = tsc.appPath
         /\ tsc.input.tsBuildInfoCacheDir = TypeScriptCachePath
         /\ Len(Posted.deletePaths) = Len(SelectTags(tsc.fullResponse, "dyad-delete"))
         /\ Len(Posted.renameTags) = Len(SelectTags(tsc.fullResponse, "dyad-rename"))
         /\ Len(Posted.writeTags) = Len(SelectTags(tsc.fullResponse, "dyad-write"))
         /\ \A k \in DOMAIN Posted.writeTags :
              /\ Posted.writeTags[k].path =
                   normalizePath(SelectTags(tsc.fullResponse, "dyad-write")[k].path)
              /\ Posted.writeTags[k].content =
                   CleanContent(SelectTags(tsc.fullResponse, "dyad-write")[k].body)

\* A response that deletes and writes old.ts was checked for the second
\* project and the worker reported: the tree still holds the old content.
C23_Witness ==
    /\ tsc.fullResponse = <<DeleteOld, WriteOld>>
    /\ tsc.appPath = 2
    /\ tsc.promise.state = "resolved"
    /\ tsc.worker = "exited"
    /\ Len(tsc.input.virtualChanges.writeTags) = 1
    /\ fs[2] = InitialTree

\* ------------------------------------------------------------------ C24
\* The real step acted: the loop moved on or the run ended.
PatchStepActed ==
    Slot.pc = "searchReplace" /\ (NextSlot.pc # Slot.pc \/ NextSlot.idx # Slot.idx)
DryRunActed == NextSlot.dry # Slot.dry
WriteAttempted == "writeFileSync" \in NewOps
\* The decisions a dry run has taken for the tag the step handles, on the
\* tree the step handles it in, with readFile answering both alike.
SameTagSameTree ==
    {n \in DOMAIN Slot.dry.seen :
        /\ Slot.dry.seen[n].tag = Slot.idx
        /\ Slot.dry.seen[n].tree = BeforeDir
        /\ Slot.dry.seen[n].failed <=> UnrecordedNow > 0}

\* C24: when the search-replace step handles a tag in a tree state in which
\* a dry run has decided the same tag, readFile answering both alike, the
\* dry run has pushed an issue for the tag exactly when the step does not
\* write (target missing or a directory, read failed, result not successful
\* or without content) and none exactly when the step writes; a step that
\* does not write leaves the tree as it was, and no step of a dry run
\* changes a tree, a repository, a message row, a registry or anything of
\* the invocation.
C24_DryRunDecidesAsStep ==
    [][/\ PatchStepActed
            => /\ \A n \in SameTagSameTree :
                    (Slot.dry.seen[n].issue # <<>>) <=> ~WriteAttempted
               /\ ~WriteAttempted => NextDir = BeforeDir
       /\ DryRunActed
            => /\ fs' = fs /\ git' = git /\ msgs' = msgs /\ uploads' = uploads
               /\ NextSlot = [Slot EXCEPT !.dry = NextSlot.dry]
      ]_vars

\* A run that patched b.ts and skipped the patch of old.ts. The dry run was
\* called after the write of b.ts: it decided both tags on the tree the step
\* handled the second tag in, with an issue for the patch of old.ts, and for
\* the patch of b.ts too, which no longer finds its line in the patched file.
C24_Witness ==
    /\ Slot.pc = "done"
    /\ Slot.fullResponse = <<PatchB, PatchOld>>
    /\ Slot.dry.state = "returned"
    /\ Slot.dry.issues =
         <<Issue(BTs, "Unable to apply search-replace to file because: target-not-found"),
           Issue(OldTs, "Unable to apply search-replace to file because: target-not-found")>>
    /\ Slot.dry.seen[2].tree = Dir
    /\ Slot.writtenFiles = <<BTs>>
    /\ Cardinality(EventsOf("searchReplace", "writeFileSync")) = 1

\* ------------------------------------------------------------------ C25
\* What a parser returns for a response.
Parsed(fn, response) ==
    CASE fn = "getDyadWriteTags" -> getDyadWriteTags(response)
      [] fn = "getDyadRenameTags" -> getDyadRenameTags(response)
      [] fn = "getDyadDeleteTags" -> getDyadDeleteTags(response)
      [] fn = "getDyadAddDependencyTags" -> getDyadAddDependencyTags(response)
      [] fn = "getDyadExecuteSqlTags" -> getDyadExecuteSqlTags(response)
      [] fn = "getDyadSearchReplaceTags" -> getDyadSearchReplaceTags(response)
      [] OTHER -> <<>>

Pathless(kinds) ==
    {k \in DOMAIN call.input :
        call.input[k].kind \in kinds /\ call.input[k].path = ""}

RECURSIVE Without(_, _, _)
\* The response without the tags at the positions in drop.
Without(response, drop, k) ==
    IF k > Len(response) THEN <<>>
    ELSE (IF k \in drop THEN <<>> ELSE <<response[k]>>)
             \o Without(response, drop, k + 1)

KindOf(fn) ==
    CASE fn = "getDyadWriteTags" -> "dyad-write"
      [] fn = "getDyadSearchReplaceTags" -> "dyad-search-replace"
      [] fn = "getDyadDeleteTags" -> "dyad-delete"
      [] OTHER -> "none"

\* C25: the write parser and the search-replace parser return nothing for a
\* tag of their kind without path and log exactly one warning for it, and
\* every parser returns what it returns for the response without the
\* write and search-replace tags that lack a path.
C25_PathlessTagWarnsOnce ==
    call.fn # "none" =>
      /\ call.fn \in {"getDyadWriteTags", "getDyadSearchReplaceTags"} =>
           /\ Len(call.log) = Cardinality(Pathless({KindOf(call.fn)}))
           /\ \A k \in DOMAIN call.log : call.log[k] = Warning(KindOf(call.fn))
           /\ Len(call.output)
                = Len(SelectTags(call.input, KindOf(call.fn)))
                    - Cardinality(Pathless({KindOf(call.fn)}))
           /\ \A k \in DOMAIN call.output : call.output[k].path # ""
      /\ call.output =
           Parsed(call.fn,
                  Without(call.input,
                          Pathless({"dyad-write", "dyad-search-replace"}), 1))

\* A write tag without path between two write tags: both are returned, one
\* warning is logged.
C25_Witness ==
    /\ call.fn = "getDyadWriteTags"
    /\ call.input = <<WriteOld, WriteNoPath, WriteB>>
    /\ call.output = <<[path |-> OldTs, content |-> NewContent],
                       [path |-> BTs, content |-> NewContent]>>
    /\ call.log = <<Warning("dyad-write")>>

\* ------------------------------------------------------------------ C26
\* C26 as stated: the delete parser drops a delete tag without path, logs one
\* warning for it and returns the paths of the other delete tags.
C26_Original ==
    call.fn = "getDyadDeleteTags" =>
      /\ Len(call.log) = Cardinality(Pathless({"dyad-delete"}))
      /\ Len(call.output)
           = Len(SelectTags(call.input, "dyad-delete"))
               - Cardinality(Pathless({"dyad-delete"}))

\* A delete tag without path between two delete tags: both paths are
\* returned and nothing is logged.
C26_DroppedUnlogged ==
    /\ call.fn = "getDyadDeleteTags"
    /\ call.input = <<DeleteOld, DeleteNoPath, DeleteTag(BTs)>>
    /\ call.output = <<OldTs, BTs>>
    /\ call.log = <<>>

\* ------------------------------------------------------------------ C27
HasContent ==
    call.fn \in {"getDyadWriteTags", "getDyadExecuteSqlTags",
                 "getDyadSearchReplaceTags"}
      /\ call.output # <<>>
Body == call.input[1].body
Trimmed == Trim(Body)
OpenerRemoved == Trimmed # <<>> /\ Trimmed[1] \in FenceLines
\* The lines after the opener, if any.
Rest == IF OpenerRemoved THEN Tail(Trimmed) ELSE Trimmed
EndsWithFence == Rest # <<>> /\ Rest[Len(Rest)] \in FenceLines
Slice(lines, dropFirst, dropLast) ==
    SubSeq(lines, IF dropFirst THEN 2 ELSE 1,
           Len(lines) - (IF dropLast THEN 1 ELSE 0))

\* C27 as stated: the last line goes only as the closer that matches a
\* removed opener; every other line of the trimmed body is kept.
C27_Original ==
    HasContent =>
      call.output[1].content
        = Slice(Trimmed, OpenerRemoved, OpenerRemoved /\ EndsWithFence)

\* C27: the content of a write, execute-sql or search-replace tag is the
\* trimmed body without its first line if that line starts with the fence
\* marker, and without its last line if that line starts with the fence
\* marker, whether or not an opener was removed; all other lines are kept in
\* order, blank lines included, and a body without fence lines is returned
\* trimmed and whole.
C27_FenceLinesStripped ==
    HasContent =>
      /\ call.output[1].content = Slice(Trimmed, OpenerRemoved, EndsWithFence)
      /\ (\A k \in DOMAIN Body : Body[k] \notin FenceLines)
           => call.output[1].content = Trimmed

\* A fenced body whose last inner line is blank: the fences go, the text
\* and the blank line stay.
C27_Witness ==
    /\ call.fn = "getDyadWriteTags"
    /\ Body = <<Fence \o "ts", "x", "", Fence>>
    /\ call.output[1].content = <<"x", "">>

\* ------------------------------------------------------------------ C28
Whitespace == {" ", "\t", "\n"}

RECURSIVE TokensAcc(_, _, _)
\* The maximal runs of characters that are not whitespace, in order.
TokensAcc(chars, done, cur) ==
    IF chars = <<>> THEN (IF cur = "" THEN done ELSE Append(done, cur))
    ELSE IF Head(chars) \in Whitespace
         THEN TokensAcc(Tail(chars), IF cur = "" THEN done ELSE Append(done, cur), "")
         ELSE TokensAcc(Tail(chars), done, cur \o Head(chars))
WhitespaceTokens(chars) == TokensAcc(chars, <<>>, "")

\* C28 as stated: the packages of one add-dependency tag are the
\* whitespace-separated tokens of its attribute, none of them empty.
C28_Original ==
    call.fn = "getDyadAddDependencyTags" =>
      /\ call.output = WhitespaceTokens(call.input[1].packages)
      /\ \A k \in DOMAIN call.output : call.output[k] # ""

\* Two names separated by two spaces: an empty package name is returned
\* between them.
C28_EmptyName ==
    /\ call.fn = "getDyadAddDependencyTags"
    /\ call.input[1].packages = <<"a", " ", " ", "b">>
    /\ call.output = <<"a", "", "b">>

\* ------------------------------------------------------------------ C30
Prompt == call.input
\* The positions where the prefix is followed by a name character.
MentionStarts == {k \in DOMAIN Prompt : MatchesAt(Prompt, k)}
\* The longest run of name characters after the prefix at k.
NameAfter(k) ==
    LET first == k + Len(MentionPrefix)
        last == CHOOSE e \in first..Len(Prompt) :
                    /\ \A j \in first..e : Prompt[j] \in NameChars
                    /\ e = Len(Prompt) \/ Prompt[e + 1] \notin NameChars
    IN Join(SubSeq(Prompt, first, last))
\* The j-th start in order of appearance.
Start(j) ==
    CHOOSE k \in MentionStarts :
        Cardinality({m \in MentionStarts : m < k}) = j - 1

\* C30: parseAppMentions returns one name per occurrence of the prefix @app:
\* that a name character follows, in order of appearance and with duplicates
\* kept, each name being the longest run of name characters after the prefix;
\* a prompt without such an occurrence, the empty prompt included, yields the
\* empty list.
C30_MentionsInOrder ==
    call.fn = "parseAppMentions" =>
      /\ Len(call.output) = Cardinality(MentionStarts)
      /\ \A j \in DOMAIN call.output : call.output[j] = NameAfter(Start(j))
      /\ \A j \in DOMAIN call.output : call.output[j] # ""
      /\ MentionStarts = {} => call.output = <<>>

\* The same app mentioned twice, the second mention right after the first.
C30_Witness ==
    /\ call.fn = "parseAppMentions"
    /\ Prompt = MentionPrefix \o <<"x">> \o MentionPrefix \o <<"x">>
    /\ call.output = <<"x", "x">>

\* ------------------------------------------------------------------ C31
RECURSIVE RefsIn(_, _, _)
\* The arguments of the calls of one operation of one step, in call order.
RefsIn(trace, step, op) ==
    IF trace = <<>> THEN <<>>
    ELSE (IF Head(trace).step = step /\ Head(trace).op = op
          THEN <<Head(trace).ref>> ELSE <<>>)
             \o RefsIn(Tail(trace), step, op)
Refs(step, op) == RefsIn(Slot.trace, step, op)

\* The tags of one kind that carry a path, by their position in the text.
Textual(kind) ==
    LET at == {k \in DOMAIN Slot.fullResponse :
                  /\ Slot.fullResponse[k].kind = kind
                  /\ Slot.fullResponse[k].path # ""}
        Nth(j) == CHOOSE k \in at : Cardinality({m \in at : m < k}) = j - 1
    IN [j \in 1..Cardinality(at) |-> Slot.fullResponse[Nth(j)]]
WriteList ==
    [k \in DOMAIN Textual("dyad-write") |->
        [path |-> Textual("dyad-write")[k].path,
         content |-> CleanContent(Textual("dyad-write")[k].body)]]
\* How many writes succeeded so far; they are the first tags of the list.
WritesDone == Cardinality(EventsOf("write", "writeFileSync"))
                 - Cardinality(FailedEvents("write", "writeFileSync"))
\* The last of the first n write tags that targets p, or 0.
LastWrite(p, n) ==
    IF \E k \in 1..n : WriteList[k].path = p
    THEN CHOOSE k \in 1..n :
            /\ WriteList[k].path = p
            /\ \A j \in 1..n : WriteList[j].path = p => j <= k
    ELSE 0

\* The write tags of p.
WritesOf(p) == {k \in DOMAIN WriteList : WriteList[k].path = p}

\* C31 as stated: every invocation that has written a file of a response
\* with several write tags for one path, and whose result was stored, ends
\* with that path holding the content of the textually last of them.
C31_Original ==
    (Slot.pc = "done" /\ WritesDone > 0 /\ ~FinalUpdateFailed)
      => \A p \in Paths :
           Cardinality(WritesOf(p)) > 1
             => Dir[p] = File(WriteList[LastWrite(p, Len(WriteList))].content)

\* old.ts written, b.ts written, and the second write of old.ts threw: the
\* invocation ended with old.ts holding the content of the first tag, the
\* writes made so far kept.
C31_LaterWriteLost ==
    /\ Slot.pc = "done"
    /\ Slot.fullResponse = <<WriteOld, WriteB, WriteOldAgain>>
    /\ Slot.result = ErrorResult
    /\ Refs("write", "writeFileSync") = <<OldTs, BTs, OldTs>>
    /\ Cardinality(FailedEvents("write", "writeFileSync")) = 1
    /\ Dir[OldTs] = File(NewContent)
    /\ Dir[BTs] = File(NewContent)

\* ------------------------------------------------------------------ C32
\* The invocation ended, and not by the project lookup: the lookup found the
\* project and did not throw, which would reject with no update made.
PastLookup ==
    /\ Slot.pc = "done" /\ Slot.app.found /\ ~SnapshotFailure
    /\ Slot.result = Rejected => FinalUpdateFailed
InstallOutputEmbedded ==
    /\ InstallResultsEmbedded(Slot.fullResponse)
    /\ \E k \in EventsOf("deps", "executeAddDependency") : Slot.trace[k].ok

\* C32: an invocation that got past the project lookup and the pre-step ends
\* with the finally block's update as the last call of its trace, and the row
\* with the message's id then holds the original response text followed by
\* the annotation block of the warnings and errors collected, empty or not;
\* the install output that executeAddDependency had embedded is gone. An
\* update that fails leaves the row as it was.
C32_FinalContentIsResponsePlusBlock ==
    /\ PastLookup =>
         /\ Slot.trace # <<>>
         /\ Slot.trace[Len(Slot.trace)].step = "finally"
         /\ FinalUpdateFailed => Slot.result = Rejected /\ ~Row.content.appended
         /\ Row.row # "none" /\ ~FinalUpdateFailed =>
              /\ Row.content = Content(FALSE, TRUE, Slot.warnings, Slot.errors)
              /\ ~Row.content.installResults

\* An install whose output was embedded, in a run that collected nothing.
C32_Witness ==
    /\ PastLookup
    /\ Slot.fullResponse = <<AddLeftRight>>
    /\ InstallOutputEmbedded
    /\ Slot.warnings = <<>> /\ Slot.errors = <<>>
    /\ Row.content = Content(FALSE, TRUE, <<>>, <<>>)

\* ------------------------------------------------------------------ C33
WriteContinues ==
    NextSlot.pc = (IF Slot.idx < Len(getDyadWriteTags(Slot.fullResponse))
                   THEN "write"
                   ELSE FirstPhaseFrom(Slot, PhaseIndex("write") + 1))
NewErrors == SubSeq(NextSlot.errors, Len(Before.errors) + 1, Len(NextSlot.errors))

\* C33: when the body of a write tag names a pending upload and the read of
\* the uploaded file fails, the error "Failed to read uploaded file" is
\* recorded once, the identifier text is written to the path, the path is
\* counted as written and the next write tag, or the step after the writes,
\* follows, unless the write itself, or the making of the parent directories
\* before it, throws.
C33_FailedReadWritesIdentifier ==
    [][(/\ Ends("write") /\ FailedNow("readFile")
        /\ ~FailedNow("writeFileSync") /\ UnrecordedNow = 0)
         => /\ Len(NewErrors) = (IF FailedNow("deploySupabaseFunctions") THEN 2 ELSE 1)
            /\ \E id \in PendingIds :
                 /\ NewErrors[1] = Output("Failed to read uploaded file", id)
                 /\ Trim(NextDir[WriteNow.path].data) = <<id>>
            /\ NextDir[WriteNow.path] = File(WriteNow.content)
            /\ Written
            /\ NextSlot.writtenFiles = Append(Before.writtenFiles, WriteNow.path)
            /\ NextSlot.result = Pending
            /\ WriteContinues]_vars

\* The upload named by the first write could not be read: the identifier was
\* written as text, the second write ran, and the run ended with a summary
\* and one error.
C33_Witness ==
    /\ Slot.pc = "done"
    /\ Slot.fullResponse = <<WriteUpload, WriteOld>>
    /\ FailedEvents("write", "readFile") # {}
    /\ Cardinality(EventsOf("write", "writeFileSync")) = 2
    /\ FailedEvents("write", "writeFileSync") = {}
    /\ Dir[WriteUpload.path] = File(<<FirstUploadId>>)
    /\ Dir[OldTs] = File(NewContent)
    /\ Slot.errors = <<Output("Failed to read uploaded file", FirstUploadId)>>
    /\ Slot.result.kind = "summary"

\* ------------------------------------------------------------------ C34
DeleteNow == getDyadDeleteTags(Slot.fullResponse)[Slot.idx]
UnitPath(p) == FunctionsDir \in Ancestors(p)
MissingDelete == Ends("delete") /\ ~Exists(BeforeDir, DeleteNow)
MissingRename == Ends("rename") /\ ~Exists(BeforeDir, RenameNow.from)
NothingLocal ==
    /\ SameFiles
    /\ NextRepo = BeforeRepo
    /\ NextSlot.deletedFiles = Before.deletedFiles
    /\ NextSlot.renamedFiles = Before.renamedFiles
TeardownIssued(p) ==
    \E k \in DOMAIN NewEvents :
        /\ NewEvents[k].op = "deleteSupabaseFunction"
        /\ NewEvents[k].ref = "hello"
DeployIssued == "deploySupabaseFunctions" \in NewOps
\* The file a deploy of RenameNow.to would send: the path itself.
DestinationIsFile == BeforeDir[RenameNow.to].kind = "file"

\* C34 as stated: for a missing delete path or rename source nothing changes
\* locally, the parent directories of the rename destination are created,
\* and the teardown and deploy requests of unit paths are issued.
C34_Original ==
    [][/\ MissingDelete
            => /\ NothingLocal
               /\ UnitPath(DeleteNow) => TeardownIssued(DeleteNow)
       /\ MissingRename
            => /\ NothingLocal
               /\ \A a \in Ancestors(RenameNow.to) : NextDir[a] = DirEntry
               /\ UnitPath(RenameNow.from) => TeardownIssued(RenameNow.from)
               /\ UnitPath(RenameNow.to) => DeployIssued]_vars

\* C34: for a delete tag whose path is missing and a rename tag whose source
\* is missing, no file is changed, counted or staged; the parent directories
\* of the rename destination are created; the remote teardown of a unit path
\* is requested, a failure recorded as an error (delete) or a warning
\* (rename); the remote deploy of a unit destination is requested only when a
\* file already lies at the destination, and otherwise, or when the request
\* fails, one deploy error is recorded. The rename part holds of the tags
\* whose directories could be made and whose read of the file to deploy did
\* not fail for a reason of its own.
C34_RemoteEffectsOfMissingPaths ==
    [][/\ MissingDelete
            => /\ NothingLocal
               /\ UnitPath(DeleteNow) <=> TeardownIssued(DeleteNow)
               /\ NextSlot.warnings = Before.warnings
               /\ NextSlot.errors
                    = (IF FailedNow("deleteSupabaseFunction")
                       THEN Append(Before.errors,
                                   Output("Failed to delete Supabase function", DeleteNow))
                       ELSE Before.errors)
               /\ DeleteContinues
       /\ MissingRename /\ UnrecordedNow = 0
            => /\ NothingLocal
               /\ \A a \in Ancestors(RenameNow.to) : NextDir[a] = DirEntry
               /\ UnitPath(RenameNow.from) <=> TeardownIssued(RenameNow.from)
               /\ NextSlot.warnings
                    = (IF FailedNow("deleteSupabaseFunction")
                       THEN Append(Before.warnings,
                                   Output("Failed to delete Supabase function",
                                          RenameNow.from))
                       ELSE Before.warnings)
               /\ DeployIssued <=> (UnitPath(RenameNow.to) /\ DestinationIsFile)
               /\ NextSlot.errors
                    = (IF UnitPath(RenameNow.to)
                          /\ (~DestinationIsFile \/ FailedNow("deploySupabaseFunctions"))
                       THEN Append(Before.errors,
                                   Output("Failed to deploy Supabase function",
                                          RenameNow.to))
                       ELSE Before.errors)
               /\ RenameContinues]_vars

\* In a project without the unit, the delete of supabase/functions/hello
\* removed nothing but requested the teardown, and the rename of the missing
\* c.ts to the unit's entry file created the directories, moved nothing, sent
\* no deploy and recorded the deploy error.
C34_Witness ==
    /\ Slot.pc = "done"
    /\ Slot.fullResponse = <<DeleteHello, RenameMissingToUnit>>
    /\ Cardinality(EventsOf("delete", "deleteSupabaseFunction")) = 1
    /\ FailedEvents("delete", "deleteSupabaseFunction") = {}
    /\ EventsOf("delete", "unlink") = {}
    /\ EventsOf("rename", "renameSync") = {}
    /\ EventsOf("rename", "deploySupabaseFunctions") = {}
    /\ Dir[HelloDir] = DirEntry
    /\ ~Exists(Dir, HelloIndex) /\ ~Exists(Dir, CTs)
    /\ Slot.deletedFiles = <<>> /\ Slot.renamedFiles = <<>>
    /\ Slot.errors = <<Output("Failed to deploy Supabase function", HelloIndex)>>

\* ------------------------------------------------------------------ C35
\* The events that call resolve or reject: every message, every error, and
\* an exit with a code other than 0.
Settling(e) == e.type \in {"message", "error"} \/ (e.type = "exit" /\ e.code # 0)
SettlingEvents == {k \in DOMAIN tsc.events : Settling(tsc.events[k])}
FirstSettling ==
    tsc.events[CHOOSE k \in SettlingEvents : \A j \in SettlingEvents : k <= j]
Outcome(e) ==
    CASE e.type = "message" /\ e.output.success /\ e.output.data # ""
           -> Promise("resolved", e.output.data)
      [] e.type = "message" /\ ~(e.output.success /\ e.output.data # "")
           -> Promise("rejected",
                      IF e.output.error # "" THEN e.output.error
                      ELSE "Unknown worker error")
      [] e.type = "error" -> Promise("rejected", "worker error")
      [] e.type = "exit"
           -> Promise("rejected", "Worker exited with code " \o ToString(e.code))

\* C35: the promise of generateProblemReport is pending until the first
\* event that calls resolve or reject, and from then on holds the outcome of
\* that first event, whatever messages, errors and exits follow.
C35_SettledOnceByFirstEvent ==
    tsc.worker # "none"
      => IF SettlingEvents = {}
         THEN tsc.promise = Promise("pending", "")
         ELSE tsc.promise = Outcome(FirstSettling)

\* A report resolved the promise; an error and the exit of the terminated
\* worker with code 1 followed, each calling reject, and the promise still
\* holds the report.
C35_Witness ==
    /\ Len(tsc.events) = 3
    /\ tsc.events[1] = Received("message", WorkerOutput(TRUE, "report", ""), 0)
    /\ tsc.events[2].type = "error"
    /\ tsc.events[3] = Received("exit", NoOutput, 1)
    /\ [k \in DOMAIN tsc.calls |-> tsc.calls[k].op]
         = <<"terminate", "resolve", "terminate", "reject", "reject">>
    /\ tsc.promise = Promise("resolved", "report")

\* ------------------------------------------------------------------ C36
PatchTags == getDyadSearchReplaceTags(Slot.fullResponse)
Renamed == \E k \in DOMAIN Slot.fullResponse : Slot.fullResponse[k] = RenameBToOld
\* The lines of p when the search-replace loop starts: those of the project
\* at the start, b.ts moved to old.ts by a rename tag.
BeforePatches(p) ==
    IF Renamed
    THEN (CASE p = OldTs -> BContent [] p = BTs -> <<>> [] OTHER -> <<>>)
    ELSE (CASE p = OldTs -> OldContent [] p = BTs -> BContent [] OTHER -> <<>>)
RECURSIVE Composed(_, _, _, _)
\* The lines of p after the first n tags were applied one after the other,
\* a tag of another path or with a failed patch leaving them as they are.
Composed(lines, p, k, n) ==
    IF k > n THEN lines
    ELSE LET r == applySearchReplace(lines, PatchTags[k].content)
         IN Composed(IF PatchTags[k].path = p /\ r.success /\ r.hasContent
                     THEN r.content ELSE lines,
                     p, k + 1, n)
\* What a dry run of one tag reports on a tree that does not change while
\* it runs and whose files can be read.
Verdict(tree, tag) ==
    IF ~Exists(tree, tag.path)
    THEN <<Issue(tag.path, "Search-replace target file does not exist: "
                             \o tag.path)>>
    ELSE IF tree[tag.path].kind = "dir"
    THEN <<Issue(tag.path, "Error: EISDIR: illegal operation on a directory, read")>>
    ELSE LET r == applySearchReplace(tree[tag.path].data, tag.content)
         IN IF r.success /\ r.hasContent THEN <<>>
            ELSE <<Issue(tag.path,
                         "Unable to apply search-replace to file because: "
                             \o r.error)>>
RECURSIVE Verdicts(_, _)
\* The verdicts of the tags k.. of the response on one tree.
Verdicts(tree, k) ==
    IF k > Len(PatchTags) THEN <<>>
    ELSE Verdict(tree, PatchTags[k]) \o Verdicts(tree, k + 1)
RECURSIVE IssuesSeen(_, _)
IssuesSeen(seen, k) ==
    IF k > Len(seen) THEN <<>> ELSE seen[k].issue \o IssuesSeen(seen, k + 1)
\* No write and no staging threw, and no call failed that leaves no event
\* (making directories, reading a target).
NoThrow ==
    /\ \A k \in DOMAIN NextSlot.trace :
          NextSlot.trace[k].op \in {"writeFileSync", "gitAdd"} => NextSlot.trace[k].ok
    /\ NextSlot.faults
         = Cardinality({k \in DOMAIN NextSlot.trace : ~NextSlot.trace[k].ok})
DryRunReturned == Slot.dry.state = "returned"
AllReadsAnswered == \A n \in DOMAIN Slot.dry.seen : ~Slot.dry.seen[n].failed

\* C36 as stated, for the dry run: a dry run whose reads were all answered
\* returns, for every tag, the verdict of the tag on the tree of the time of
\* the call.
C36_Original ==
    (DryRunReturned /\ AllReadsAnswered)
      => Slot.dry.issues = Verdicts(Slot.dry.calledOn[1], 1)

\* C36: after the search-replace step has handled the k-th tag, old.ts and
\* b.ts hold what the first k tags give when applied one after the other to
\* the content the renames left, a failed tag passing the content on
\* unchanged. A dry run decides the tags one by one in textual order, each on
\* the tree of the moment the tag's target is looked up and read, and never
\* writes: the issue of a tag is the verdict of that tag alone on that tree
\* (the error of the read when the read fails or the target was removed
\* after it was found), and the returned list is the verdicts of the time of
\* the call when no tree seen differs from the tree of the call.
C36_ComposedRunIndependentDryRun ==
    [][/\ (PatchStepActed /\ NoThrow)
            => \A p \in {OldTs, BTs} :
                 /\ Exists(NextDir, p) <=> (p = OldTs \/ ~Renamed)
                 /\ Exists(NextDir, p)
                      => NextDir[p] = File(Composed(BeforePatches(p), p, 1, Slot.idx))
       /\ DryRunActed => NextDir = Dir
       /\ \A n \in DOMAIN Slot.dry.seen :
            LET r == Slot.dry.seen[n]
                tag == PatchTags[n]
            IN /\ r.tag = n
               /\ (~r.failed /\ ~r.raced) => r.issue = Verdict(r.tree, tag)
               /\ r.failed
                    => r.issue = <<Issue(tag.path, "Error: EIO: i/o error, read")>>
               /\ r.raced
                    => r.issue =
                         <<Issue(tag.path,
                                 "Error: ENOENT: no such file or directory, open '"
                                     \o tag.path \o "'")>>
       /\ DryRunReturned
            => /\ Len(Slot.dry.seen) = Len(PatchTags)
               /\ Slot.dry.issues = IssuesSeen(Slot.dry.seen, 1)
               /\ (/\ AllReadsAnswered
                   /\ \A n \in DOMAIN Slot.dry.seen :
                        Slot.dry.seen[n].tree = Slot.dry.calledOn[1])
                    => Slot.dry.issues = Verdicts(Slot.dry.calledOn[1], 1)
      ]_vars

\* The second patch searched the line the first one had written: b.ts went
\* from 1 over 2 to 3. The dry run was called before the first patch, when
\* the second tag did not apply, and read the target of the second tag
\* after the first patch was written: it returned no issue.
C36_Witness ==
    /\ Slot.pc = "done"
    /\ Slot.fullResponse = <<PatchB, PatchBAgain>>
    /\ Slot.dry.state = "returned"
    /\ Slot.dry.issues = <<>>
    /\ Verdicts(Slot.dry.calledOn[1], 1) =
         <<Issue(BTs, "Unable to apply search-replace to file because: target-not-found")>>
    /\ Dir[BTs] = File(<<"let b = 3;", "export default b;">>)
    /\ Slot.writtenFiles = <<BTs, BTs>>
    /\ Cardinality(EventsOf("searchReplace", "writeFileSync")) = 2

\* ------------------------------------------------------------------ C37
MentionStartsIn(p) == {k \in DOMAIN p : MatchesAt(p, k)}
NameIn(p, k) ==
    LET first == k + Len(MentionPrefix)
        last == CHOOSE e \in first..Len(p) :
                    /\ \A j \in first..e : p[j] \in NameChars
                    /\ e = Len(p) \/ p[e + 1] \notin NameChars
    IN Join(SubSeq(p, first, last))
StartIn(p, j) ==
    CHOOSE k \in MentionStartsIn(p) :
        Cardinality({m \in MentionStartsIn(p) : m < k}) = j - 1
\* The names of the mentions of one prompt, in order of appearance.
OwnMentions(p) ==
    [j \in 1..Cardinality(MentionStartsIn(p)) |-> NameIn(p, StartIn(p, j))]

\* C37: between the calls of any sequence of calls of parseAppMentions the
\* shared regex stands at the start of the text (lastIndex 0, position 1 of
\* the model), every call has returned the mentions of its own prompt, and
\* two calls with the same prompt have returned the same list.
C37_NoStateBetweenCalls ==
    /\ regex.lastIndex = 1
    /\ call.fn = "parseAppMentions"
         => /\ Len(call.output) = Len(call.input)
            /\ \A k \in DOMAIN call.input : call.output[k] = OwnMentions(call.input[k])
            /\ \A j, k \in DOMAIN call.input :
                 call.input[j] = call.input[k] => call.output[j] = call.output[k]

\* Three calls: a prompt with two mentions, then twice a prompt with one
\* mention; the second and third call each found the mention at the start
\* of their prompt.
C37_Witness ==
    /\ call.fn = "parseAppMentions"
    /\ call.input = <<OneMention \o <<" ">> \o MentionPrefix \o <<"1">>,
                      OneMention, OneMention>>
    /\ call.output = <<(<<"x", "1">>), <<"x">>, <<"x">>>>
    /\ regex.lastIndex = 1

\* ------------------------------------------------------------------ C38
ListingOrStagingThrew ==
    FailedEvents("commit", "getGitUncommittedFiles")
        \cup FailedEvents("commit", "gitAddAll") # {}
PrimaryCommit == Repo.log[Len(Repo.log)]

\* C38: when getGitUncommittedFiles or gitAddAll has thrown after the primary
\* commit, the invocation ends with a top-level error and no file list; the
\* primary commit is the last commit of the repository, unamended, the
\* message row holds no commit id and is not approved; the invocation
\* rejects instead when the final update of the content throws too. When only
\* the amend failed, the invocation ends with a summary that carries the error text
\* and the file list, the row holding the id of the primary commit and being
\* approved.
C38_ThrowAfterCommit ==
    Slot.pc = "done"
      => /\ ListingOrStagingThrew
              => /\ Slot.result.kind = (IF FinalUpdateFailed THEN "thrown" ELSE "error")
                 /\ Slot.result.extraFiles = {}
                 /\ Slot.result.updatedFiles = FALSE
                 /\ Repo.log # <<>>
                 /\ PrimaryCommit.hash = Slot.commitHash
                 /\ PrimaryCommit.message = CommitMessage(Slot)
                 /\ Row.commitHash = 0
                 /\ Row.approvalState # "approved"
                 /\ EventsOf("commit", "gitCommitAmend") = {}
                 /\ EventsOf("commit", "updateCommitHash") = {}
                 /\ EventsOf("approve", "updateApprovalState") = {}
         /\ (/\ FailedEvents("commit", "gitCommitAmend") # {}
             /\ FailedEvents("commit", "updateCommitHash") = {}
             /\ FailedEvents("approve", "updateApprovalState") = {}
             /\ ~FinalUpdateFailed)
              => /\ Slot.result.kind = "summary"
                 /\ Slot.result.extraFilesError # ""
                 /\ Slot.result.extraFiles # {}
                 /\ PrimaryCommit.hash = Slot.commitHash
                 /\ Row.commitHash = Slot.commitHash
                 /\ Row.approvalState = "approved"

\* A write was committed, the user's own edit was found uncommitted and the
\* staging of all files threw: error returned, one commit in the log, the
\* row without commit id and not approved.
C38_Witness ==
    /\ Slot.pc = "done"
    /\ Slot.fullResponse = <<WriteOld>>
    /\ FailedEvents("commit", "gitAddAll") # {}
    /\ Slot.uncommittedFiles = {UserFile}
    /\ Slot.result.kind = "error"
    /\ Len(Repo.log) = 1
    /\ Slot.commitHash = 1
    /\ Row.commitHash = 0
    /\ Row.approvalState = "none"

\* ------------------------------------------------------------------ C39
SqlAttempts == EventsOf("sql", "executeSupabaseSql")
SqlTagCount ==
    Cardinality({k \in DOMAIN Slot.fullResponse :
                    Slot.fullResponse[k].kind = "dyad-execute-sql"})
\* Nothing but SQL had an effect: no path written, renamed or deleted and no
\* package asked for.
OnlySql ==
    /\ SqlAttempts # {}
    /\ Slot.writtenFiles = <<>> /\ Slot.renamedFiles = <<>> /\ Slot.deletedFiles = <<>>
    /\ getDyadAddDependencyTags(Slot.fullResponse) = <<>>
\* No call other than the execution of a SQL statement failed.
OnlySqlFailed ==
    /\ \A k \in DOMAIN Slot.trace :
          ~Slot.trace[k].ok => Slot.trace[k].op = "executeSupabaseSql"
    /\ Unrecorded = 0
SqlCountPart ==
    IF SqlAttempts # {}
    THEN <<"executed " \o ToString(Cardinality(SqlAttempts)) \o " SQL queries">>
    ELSE <<>>

\* C39: an invocation that has ended, with migration files disabled, after
\* SQL statements as its only effective actions has run every SQL tag once,
\* made no commit, stored no commit id, returned updatedFiles false and
\* approved the message, when no call but SQL executions failed. The commit
\* message of any invocation ends its list of changes with the number of SQL
\* tags that were run, failed ones included.
C39_SqlOnlyIsNoChange ==
    Slot.pc = "done"
      => /\ (OnlySql /\ ~Slot.enableSupabaseWriteSqlMigration /\ OnlySqlFailed)
              => /\ Cardinality(SqlAttempts) = SqlTagCount
                 /\ ~Slot.hasChanges
                 /\ EventsOf("commit", "gitCommit") = {}
                 /\ Repo.log = <<>>
                 /\ Slot.commitHash = 0 /\ Row.commitHash = 0
                 /\ Slot.result = Result("summary", FALSE, {}, "")
                 /\ Row.approvalState = "approved"
         /\ \A k \in EventsOf("commit", "gitCommit") :
              /\ SqlAttempts # {} => Cardinality(SqlAttempts) = SqlTagCount
              /\ Slot.trace[k].ref
                   = Marker \o JoinWith(Counted("wrote", Slot.writtenFiles)
                                        \o Counted("renamed", Slot.renamedFiles)
                                        \o Counted("deleted", Slot.deletedFiles)
                                        \o AddedPart \o SqlCountPart, ", ")

\* Two SQL tags, the first failed: both were run, nothing was committed and
\* the message was approved with updatedFiles false.
C39_Witness ==
    /\ Slot.pc = "done"
    /\ Slot.fullResponse = <<SqlCreate, SqlCreate>>
    /\ ~Slot.enableSupabaseWriteSqlMigration
    /\ Cardinality(SqlAttempts) = 2
    /\ FailedEvents("sql", "executeSupabaseSql") = {1}
    /\ Repo.log = <<>>
    /\ Row.commitHash = 0
    /\ Row.approvalState = "approved"
    /\ Slot.result = Result("summary", FALSE, {}, "")

====
